---- MODULE Spec2Model ----
(***************************************************************************)
(* A model of the article-relevance pipeline of bid_ally:                  *)
(*   news_relevance.py  compute_cosine_similarity, passes_local_pre_filter,*)
(*                      article_is_relevant                                *)
(*   main_sam.py, main_eu.py, single_solicitation.py  the article loops    *)
(*                                                                         *)
(* Python floats are IEEE-754 binary64 values.  They are modelled bit for  *)
(* bit: a float is a sign, a 53-bit significand and a binary exponent, and *)
(* every arithmetic operation rounds to nearest, ties to even.  The        *)
(* significand does not fit a machine integer of TLC, so it is a           *)
(* little-endian sequence of 15-bit limbs.                                 *)
(***************************************************************************)
EXTENDS Integers, Sequences, FiniteSets, TLC

(***************************************************************************)
(* Natural numbers of arbitrary size (the significands and the             *)
(* intermediate products and quotients of the float operations).           *)
(***************************************************************************)
Limb == 2^15

RECURSIVE BitLen(_)
BitLen(n) == IF n = 0 THEN 0 ELSE 1 + BitLen(n \div 2)

LimbBits == BitLen(Limb) - 1

Dig(x, i) == IF i <= Len(x) THEN x[i] ELSE 0

RECURSIVE BTrim(_)
BTrim(x) ==
    IF x = <<>> THEN x
    ELSE IF x[Len(x)] = 0 THEN BTrim(SubSeq(x, 1, Len(x) - 1)) ELSE x

RECURSIVE BFromNat(_)
BFromNat(n) == IF n = 0 THEN <<>> ELSE <<n % Limb>> \o BFromNat(n \div Limb)

RECURSIVE BAddC(_, _, _, _)
BAddC(x, y, i, c) ==
    IF i > Len(x) /\ i > Len(y)
    THEN (IF c = 0 THEN <<>> ELSE <<c>>)
    ELSE LET t == Dig(x, i) + Dig(y, i) + c
         IN  <<t % Limb>> \o BAddC(x, y, i + 1, t \div Limb)

BAdd(x, y) == BAddC(x, y, 1, 0)

RECURSIVE BSubC(_, _, _, _)
BSubC(x, y, i, b) ==
    IF i > Len(x) THEN <<>>
    ELSE LET t == Dig(x, i) - Dig(y, i) - b
         IN  <<t % Limb>> \o BSubC(x, y, i + 1, IF t < 0 THEN 1 ELSE 0)

\* x - y for x >= y
BSub(x, y) == BTrim(BSubC(x, y, 1, 0))

RECURSIVE BCmpAt(_, _, _)
BCmpAt(x, y, i) ==
    IF i = 0 THEN 0
    ELSE IF x[i] < y[i] THEN -1
    ELSE IF x[i] > y[i] THEN 1
    ELSE BCmpAt(x, y, i - 1)

\* -1, 0, 1 as x < y, x = y, x > y (both without leading zero limbs)
BCmp(x, y) ==
    IF Len(x) < Len(y) THEN -1
    ELSE IF Len(x) > Len(y) THEN 1
    ELSE BCmpAt(x, y, Len(x))

RECURSIVE BMulSmallC(_, _, _, _)
BMulSmallC(x, k, i, c) ==
    IF i > Len(x)
    THEN (IF c = 0 THEN <<>> ELSE <<c>>)
    ELSE LET t == x[i] * k + c
         IN  <<t % Limb>> \o BMulSmallC(x, k, i + 1, t \div Limb)

\* x * k for 0 <= k < Limb
BMulSmall(x, k) == IF k = 0 THEN <<>> ELSE BMulSmallC(x, k, 1, 0)

\* x * Limb
BShlLimb(x) == IF x = <<>> THEN <<>> ELSE <<0>> \o x

RECURSIVE BMul(_, _)
BMul(x, y) ==
    IF y = <<>> \/ x = <<>> THEN <<>>
    ELSE BAdd(BMulSmall(x, y[1]), BShlLimb(BMul(x, Tail(y))))

RECURSIVE Zeros(_)
Zeros(n) == IF n = 0 THEN <<>> ELSE <<0>> \o Zeros(n - 1)

\* x * 2^k
BShl(x, k) ==
    IF x = <<>> THEN <<>>
    ELSE Zeros(k \div LimbBits) \o BMulSmall(x, 2^(k % LimbBits))

\* floor(x / 2^k)
BShr(x, k) ==
    LET q == k \div LimbBits
        r == k % LimbBits
    IN  IF q >= Len(x) THEN <<>>
        ELSE BTrim([i \in 1..(Len(x) - q) |->
                 (x[i + q] \div 2^r) + (Dig(x, i + q + 1) % 2^r) * 2^(LimbBits - r)])


\* the number of bits of x
BLen(x) == IF x = <<>> THEN 0 ELSE (Len(x) - 1) * LimbBits + BitLen(x[Len(x)])

\* bit k of x, bit 0 the least significant
BBit(x, k) == (Dig(x, k \div LimbBits + 1) \div 2^(k % LimbBits)) % 2

\* some bit below bit k of x is set
BLowSet(x, k) == BShl(BShr(x, k), k) # x


(***************************************************************************)
(* IEEE-754 binary64.  A float is [s, m, e]: the value (-1)^s * m * 2^e    *)
(* with m a significand of exactly Prec bits, or zero (m = <<>>).  The     *)
(* values of the model stay far from the overflow and subnormal ranges.    *)
(***************************************************************************)
Prec == 53

FZero == [s |-> 0, m |-> <<>>, e |-> 0]

\* the float of sign s and magnitude q * 2^e, q of Prec or Prec + 1 bits
FPack(s, q, e) ==
    IF BLen(q) > Prec
    THEN [s |-> s, m |-> BShr(q, 1), e |-> e + 1]
    ELSE [s |-> s, m |-> q, e |-> e]

\* q is mag without its sh lowest bits: round up when those bits are more
\* than half a unit of q, or exactly half and q is odd
FRoundCut(s, mag, e, sticky, sh, q) ==
    IF BBit(mag, sh - 1) = 1 /\ (sticky \/ BLowSet(mag, sh - 1) \/ BBit(q, 0) = 1)
    THEN FPack(s, BAdd(q, <<1>>), e + sh)
    ELSE FPack(s, q, e + sh)

FRoundLen(s, mag, e, sticky, L) ==
    IF L <= Prec
    THEN [s |-> s, m |-> BShl(mag, Prec - L), e |-> e - (Prec - L)]
    ELSE FRoundCut(s, mag, e, sticky, L - Prec, BShr(mag, L - Prec))

\* mag * 2^e (plus a nonzero amount below the last bit of mag when sticky),
\* rounded to nearest, ties to even
FRound(s, mag, e, sticky) ==
    IF mag = <<>> THEN FZero ELSE FRoundLen(s, mag, e, sticky, BLen(mag))

\* float(n) for an integer n
FromInt(n) ==
    IF n < 0 THEN FRound(1, BFromNat(-n), 0, FALSE)
    ELSE FRound(0, BFromNat(n), 0, FALSE)

\* -1, 0, 1 as |a| < |b|, |a| = |b|, |a| > |b|
FCmpMag(a, b) ==
    IF a.m = <<>> THEN (IF b.m = <<>> THEN 0 ELSE -1)
    ELSE IF b.m = <<>> THEN 1
    ELSE IF a.e < b.e THEN -1
    ELSE IF a.e > b.e THEN 1
    ELSE BCmp(a.m, b.m)

\* -1, 0, 1 as a < b, a = b, a > b
FCmp(a, b) ==
    IF a.s = 0 /\ b.s = 0 THEN FCmpMag(a, b)
    ELSE IF a.s = 1 /\ b.s = 1 THEN FCmpMag(b, a)
    ELSE IF a.s = 0 THEN 1
    ELSE -1

FGe(a, b) == FCmp(a, b) >= 0

FEq(a, b) == FCmp(a, b) = 0

\* a * b
FMul(a, b) ==
    IF a.m = <<>> \/ b.m = <<>> THEN FZero
    ELSE FRound((a.s + b.s) % 2, BMul(a.m, b.m), a.e + b.e, FALSE)

\* a + b for magnitudes ma and mb aligned at the exponent e
FAddAligned(a, b, ma, mb, e) ==
    IF a.s = b.s THEN FRound(a.s, BAdd(ma, mb), e, FALSE)
    ELSE IF BCmp(ma, mb) = 0 THEN FZero
    ELSE IF BCmp(ma, mb) > 0 THEN FRound(a.s, BSub(ma, mb), e, FALSE)
    ELSE FRound(b.s, BSub(mb, ma), e, FALSE)

FAddAt(a, b, e) == FAddAligned(a, b, BShl(a.m, a.e - e), BShl(b.m, b.e - e), e)

\* a + b
FAdd(a, b) ==
    IF a.m = <<>> THEN b
    ELSE IF b.m = <<>> THEN a
    ELSE FAddAt(a, b, IF a.e < b.e THEN a.e ELSE b.e)

\* a natural number below 2^31 as an integer
BToInt(x) == Dig(x, 1) + Dig(x, 2) * Limb + Dig(x, 3) * Limb * Limb

\* the estimate est of floor(R / d) is too low by at most 3: correct it
RECURSIVE BQuotFix(_, _, _)
BQuotFix(est, rem, d) ==
    IF BCmp(rem, d) < 0 THEN <<est, rem>> ELSE BQuotFix(est + 1, BSub(rem, d), d)

BQuotRem(R, d, est) == BQuotFix(est, BSub(R, BMulSmall(d, est)), d)

\* the quotient of the leading bits of R and d, s bits dropped from both
BQuotEst(R, d, s) ==
    IF s = 0 THEN BToInt(R) \div BToInt(d)
    ELSE BToInt(BShr(R, s)) \div (BToInt(BShr(d, s)) + 1)

\* <<floor(R / d), R mod d>> for R < d * Limb
BQuotDigit(R, d) ==
    BQuotRem(R, d, BQuotEst(R, d, IF BLen(d) > LimbBits THEN BLen(d) - LimbBits ELSE 0))

\* long division, limb i of n downwards, q the quotient limbs so far and r
\* the remainder so far
RECURSIVE BDivAt(_, _, _, _, _)
BDivNext(n, d, i, q, qd) ==
    IF qd[1] < Limb THEN BDivAt(n, d, i - 1, <<qd[1]>> \o q, qd[2]) ELSE <<>>

BDivAt(n, d, i, q, r) ==
    IF i = 0 THEN <<q, r>>
    ELSE BDivNext(n, d, i, q, BQuotDigit(BTrim(<<n[i]>> \o r), d))

BDivTrim(x) == <<BTrim(x[1]), x[2]>>

\* <<floor(n / d), n mod d>> for d # 0
BDivMod(n, d) == BDivTrim(BDivAt(n, d, Len(n), <<>>, <<>>))

FDivRound(s, qr, e) == FRound(s, qr[1], e, qr[2] # <<>>)

\* a / b for b # 0
FDiv(a, b) ==
    IF a.m = <<>> THEN FZero
    ELSE FDivRound((a.s + b.s) % 2, BDivMod(BShl(a.m, Prec + 2), b.m),
                   a.e - b.e - (Prec + 2))

\* floor(sqrt(n)) for an integer 0 <= n < 2^30, bit b downwards
RECURSIVE ISqrtBits(_, _, _)
ISqrtBits(n, r, b) ==
    IF b = 0 THEN r
    ELSE IF (r + b) * (r + b) <= n THEN ISqrtBits(n, r + b, b \div 2)
    ELSE ISqrtBits(n, r, b \div 2)

\* one step of Newton's iteration for sqrt(n)
BSqrtNewton(n, x) == BShr(BAdd(x, BDivMod(n, x)[1]), 1)

RECURSIVE BSqrtIter(_, _, _)
BSqrtIter(n, x, k) ==
    IF k = 0 \/ x = <<>> THEN x ELSE BSqrtIter(n, BSqrtNewton(n, x), k - 1)

\* x is floor(sqrt(n)) or one off
BSqrtFix(n, x) ==
    IF BCmp(BMul(x, x), n) > 0 THEN BSub(x, <<1>>)
    ELSE IF BCmp(BMul(BAdd(x, <<1>>), BAdd(x, <<1>>)), n) <= 0 THEN BAdd(x, <<1>>)
    ELSE x

\* the even number of low bits of an L-bit number to drop to keep 30 bits
BSqrtShift(L) ==
    IF L <= 2 * LimbBits THEN 0
    ELSE IF (L - 2 * LimbBits) % 2 = 0 THEN L - 2 * LimbBits
    ELSE L - 2 * LimbBits + 1

BSqrtSeed(n, sh) ==
    BShl(BFromNat(ISqrtBits(BToInt(BShr(n, sh)), 0, Limb \div 2) + 1), sh \div 2)

\* floor(sqrt(n)) for n # 0: the square root of the leading 30 bits, three
\* Newton steps (each doubles the number of correct bits), then the floor
BSqrt(n) == BSqrtFix(n, BSqrtIter(n, BSqrtSeed(n, BSqrtShift(BLen(n))), 3))

FSqrtRound(n, r, e) == FRound(0, r, e, BMul(r, r) # n)

FSqrtAt(a, t) == FSqrtRound(BShl(a.m, t), BSqrt(BShl(a.m, t)), (a.e - t) \div 2)

\* sqrt(a) for a >= 0
FSqrt(a) ==
    IF a.m = <<>> THEN FZero
    ELSE FSqrtAt(a, IF (a.e - (Prec + 4)) % 2 = 0 THEN Prec + 4 ELSE Prec + 5)

\* the float nearest to the decimal p / q (a float literal such as 0.745)
FLit(p, q) == FDiv(FromInt(p), FromInt(q))

(***************************************************************************)
(* Results of calls: a returned value or a raised exception.               *)
(***************************************************************************)
Return(v) == [kind |-> "return", value |-> v]
Raise(e) == [kind |-> "raise", error |-> e]
None == [kind |-> "none"]

(***************************************************************************)
(* news_relevance.compute_cosine_similarity.  A vector is a sequence of    *)
(* integers, each standing for the float of that value.                    *)
(***************************************************************************)
MaxDim == 2
Coords == {-1, 0, 1}

RECURSIVE SeqsOfLen(_, _)
SeqsOfLen(S, n) ==
    IF n = 0 THEN {<<>>}
    ELSE {Append(q, x) : q \in SeqsOfLen(S, n - 1), x \in S}

SeqsUpTo(S, n) == UNION {SeqsOfLen(S, k) : k \in 0..n}

Vectors == SeqsUpTo(Coords, MaxDim)

\* lines 21-23
CosineZero == [dot_product |-> FZero, norm_a |-> FZero, norm_b |-> FZero]

\* lines 25-28: the body of the loop for the pair of coordinates a, b
CosineAcc(acc, a, b) ==
    [dot_product |-> FAdd(acc.dot_product, FMul(a, b)),
     norm_a      |-> FAdd(acc.norm_a, FMul(a, a)),
     norm_b      |-> FAdd(acc.norm_b, FMul(b, b))]

\* lines 24-28: the loop over zip(vec_a, vec_b) from position i on
RECURSIVE CosineLoop(_, _, _, _)
CosineLoop(vec_a, vec_b, i, acc) ==
    IF i > Len(vec_a) \/ i > Len(vec_b) THEN acc
    ELSE CosineLoop(vec_a, vec_b, i + 1,
                    CosineAcc(acc, FromInt(vec_a[i]), FromInt(vec_b[i])))

\* lines 30-35
CosineResult(acc) ==
    IF FEq(acc.norm_a, FZero) \/ FEq(acc.norm_b, FZero)
    THEN Return(FZero)
    ELSE Return(FDiv(acc.dot_product, FMul(FSqrt(acc.norm_a), FSqrt(acc.norm_b))))

compute_cosine_similarity_NoDimCheck(vec_a, vec_b) ==
    CosineResult(CosineLoop(vec_a, vec_b, 1, CosineZero))

compute_cosine_similarity(vec_a, vec_b) ==
    IF Len(vec_a) # Len(vec_b)
    THEN Raise("ValueError")
    ELSE CosineResult(CosineLoop(vec_a, vec_b, 1, CosineZero))

(***************************************************************************)
(* news_relevance.passes_local_pre_filter.  A text is the sequence of its  *)
(* words; sklearn's TfidfVectorizer(stop_words="english", min_df=1) and    *)
(* cosine_similarity are modelled by what they compute on the two          *)
(* documents.                                                              *)
(***************************************************************************)
MaxWords == 2
WordList == <<"submarine", "subsidy", "the">>
StopWords == {"the"}

WordIndex(w) == CHOOSE i \in 1..Len(WordList) : WordList[i] = w

\* the texts of at most MaxWords words, one for each bag of words (the order
\* of the words of a text has no effect on its tf-idf row)
Texts ==
    {t \in SeqsUpTo({WordList[i] : i \in 1..Len(WordList)}, MaxWords) :
        \A i \in 1..(Len(t) - 1) : WordIndex(t[i]) <= WordIndex(t[i + 1])}

\* the analyzer: the words of a text that are not stop words
Tokens(text) == {text[i] : i \in 1..Len(text)} \ StopWords

Count(text, w) == Cardinality({i \in 1..Len(text) : text[i] = w})

\* the fitted vocabulary, and its features in (alphabetical) order
Vocabulary(docs) == UNION {Tokens(docs[d]) : d \in 1..Len(docs)}
Features(docs) == SelectSeq(WordList, LAMBDA w : w \in Vocabulary(docs))

DocFreq(docs, w) == Cardinality({d \in 1..Len(docs) : w \in Tokens(docs[d])})

\* smooth idf of a term over two documents: ln((1 + 2) / (1 + df)) + 1, which
\* is 1.0 for df = 2 and the float 1.4054651081081644 for df = 1
Idf(df) ==
    IF df = 2 THEN FromInt(1)
    ELSE [s |-> 0, m |-> <<26131, 30303, 29475, 179>>, e |-> -52]

\* row d of term counts times idf, from feature i on
RECURSIVE TfIdfAt(_, _, _, _)
TfIdfAt(docs, d, features, i) ==
    IF i > Len(features) THEN <<>>
    ELSE <<FMul(FromInt(Count(docs[d], features[i])),
                Idf(DocFreq(docs, features[i])))>>
             \o TfIdfAt(docs, d, features, i + 1)

\* the sum of the squares of a row, entry i onwards added to acc
RECURSIVE SumSquares(_, _, _)
SumSquares(x, i, acc) ==
    IF i > Len(x) THEN acc ELSE SumSquares(x, i + 1, FAdd(acc, FMul(x[i], x[i])))

RECURSIVE ScaleRow(_, _, _)
ScaleRow(x, norm, i) ==
    IF i > Len(x) THEN <<>> ELSE <<FDiv(x[i], norm)>> \o ScaleRow(x, norm, i + 1)

NormalizeBy(x, norm) == IF norm.m = <<>> THEN x ELSE ScaleRow(x, norm, 1)

\* sklearn.preprocessing.normalize(norm="l2") of a row: a row of zero norm is
\* left as it is
Normalize(x) == NormalizeBy(x, FSqrt(SumSquares(x, 1, FZero)))

\* row d of the tf-idf matrix (TfidfVectorizer normalises its rows)
TfidfRow(docs, d) == Normalize(TfIdfAt(docs, d, Features(docs), 1))

\* the product of two rows, entry i onwards added to acc
RECURSIVE FDot(_, _, _, _)
FDot(x, y, i, acc) ==
    IF i > Len(x) THEN acc ELSE FDot(x, y, i + 1, FAdd(acc, FMul(x[i], y[i])))

\* sklearn.metrics.pairwise.cosine_similarity of two rows: both are
\* normalised (again) and multiplied
sklearn_cosine_similarity(x, y) == FDot(Normalize(x), Normalize(y), 1, FZero)

\* lines 54-62: fit_transform raises ValueError on an empty vocabulary
tfidf_similarity(docs) ==
    IF Vocabulary(docs) = {}
    THEN Raise("ValueError")
    ELSE Return(sklearn_cosine_similarity(TfidfRow(docs, 1), TfidfRow(docs, 2)))

\* line 67
PreFilterResult(sim, local_threshold) ==
    IF sim.kind = "raise" THEN sim
    ELSE Return(FGe(sim.value, local_threshold))

passes_local_pre_filter_Inverted(article_text, solicitation_text, local_threshold) ==
    LET sim == tfidf_similarity(<<solicitation_text, article_text>>)
    IN  IF sim.kind = "raise" THEN sim
        ELSE Return(FGe(local_threshold, sim.value))

passes_local_pre_filter(article_text, solicitation_text, local_threshold) ==
    PreFilterResult(tfidf_similarity(<<solicitation_text, article_text>>),
                    local_threshold)

(***************************************************************************)
(* news_relevance.article_is_relevant, one activation.  The embedding      *)
(* provider answers each call with a vector or fails (openai raises).      *)
(* article_title is only printed and is left out.                          *)
(***************************************************************************)
MaxTags == 3

\* tags as the model returns them; a tag may repeat
TagList == <<"naval engineering", "submarine manufacturing", "naval engineering",
             "sonar", "hull design">>

\* the tag lists of each length
TagLists == {SubSeq(TagList, 1, n) : n \in 0..MaxTags}

\* what an embedding call can answer: a vector (one of them of another
\* dimension), or a failure
EmbedResponses ==
    {Return(<<1, 0>>), Return(<<1, 1>>), Return(<<1>>), Raise("OpenAIError")}

\* config.RELEVANCE_THRESHOLD (0.745) and the default local_threshold (0.05)
RELEVANCE_THRESHOLD == FLit(745, 1000)
DEFAULT_LOCAL_THRESHOLD == FLit(1, 20)

Thresholds == {FLit(-1, 2), FromInt(0), RELEVANCE_THRESHOLD, FromInt(1)}
LocalThresholds == {DEFAULT_LOCAL_THRESHOLD, FromInt(1)}

\* the activation on entry (lines 160-188; the caller of the model replaces
\* threshold=None by RELEVANCE_THRESHOLD).  pre_filter is the value of the
\* call at line 190, embed_calls the inputs of the embedding calls issued so
\* far and responses their answers.
article_is_relevant(article_text, solicitation_tags, solicitation_text, threshold, local_threshold) ==
    [article_text      |-> article_text,
     solicitation_tags |-> solicitation_tags,
     solicitation_text |-> solicitation_text,
     threshold         |-> threshold,
     local_threshold   |-> local_threshold,
     pc                |-> "prefilter",
     pre_filter        |-> None,
     weights           |-> <<>>,
     article_embedding |-> <<>>,
     i                 |-> 0,
     sum_weighted_sims |-> FZero,
     total_weight      |-> FZero,
     embed_calls       |-> <<>>,
     responses         |-> <<>>,
     result            |-> None]

Finish(c, r) == [c EXCEPT !.pc = "done", !.result = r]

\* lines 190-198: the branch on the pre-filter's value r
PreFilterGate(c, r) ==
    IF r.kind = "raise" THEN Finish([c EXCEPT !.pre_filter = r], r)
    ELSE IF ~r.value THEN Finish([c EXCEPT !.pre_filter = r], Return(FALSE))
    ELSE [c EXCEPT !.pre_filter = r, !.pc = "check_tags"]

StepPreFilter_NoGate(c) ==
    LET r == passes_local_pre_filter(c.article_text, c.solicitation_text,
                                     c.local_threshold)
    IN  IF r.kind = "raise" THEN Finish([c EXCEPT !.pre_filter = r], r)
        ELSE [c EXCEPT !.pre_filter = r, !.pc = "check_tags"]

\* lines 190-198: Gate 1
StepPreFilter(c) ==
    PreFilterGate(c, passes_local_pre_filter(c.article_text, c.solicitation_text,
                                             c.local_threshold))

StepCheckTags_NoEmptyCheck(c) ==
    [c EXCEPT !.pc = "embed_article",
              !.weights = [k \in 1..Len(c.solicitation_tags) |->
                              Len(c.solicitation_tags) - (k - 1)]]

StepCheckTags_Ascending(c) ==
    IF Len(c.solicitation_tags) = 0 THEN Finish(c, Return(FALSE))
    ELSE [c EXCEPT !.pc = "embed_article",
                   !.weights = [k \in 1..Len(c.solicitation_tags) |-> k]]

\* lines 203-210: no tags, or the descending weights [N - i for i in range(N)]
StepCheckTags(c) ==
    IF Len(c.solicitation_tags) = 0 THEN Finish(c, Return(FALSE))
    ELSE [c EXCEPT !.pc = "embed_article",
                   !.weights = [k \in 1..Len(c.solicitation_tags) |->
                                   Len(c.solicitation_tags) - (k - 1)]]

\* an embedding call (openai.Embedding.create) for input and its answer r
Called(c, input, r) ==
    [c EXCEPT !.embed_calls = Append(@, input), !.responses = Append(@, r)]

\* lines 217-225: the article's embedding, r the provider's answer
StepEmbedArticle(c, r) ==
    IF r.kind = "raise" THEN Finish(Called(c, c.article_text, r), r)
    ELSE [Called(c, c.article_text, r) EXCEPT
             !.article_embedding = r.value,
             !.sum_weighted_sims = FZero,
             !.total_weight = FZero,
             !.i = 1,
             !.pc = IF Len(c.solicitation_tags) = 0 THEN "decide" ELSE "embed_tag"]

TagScored_SkipMismatch(c, similarity) ==
    IF similarity.kind = "raise"
    THEN [c EXCEPT !.i = @ + 1,
                   !.pc = IF c.i = Len(c.solicitation_tags) THEN "decide" ELSE "embed_tag"]
    ELSE [c EXCEPT
             !.sum_weighted_sims = FAdd(@, FMul(similarity.value, FromInt(c.weights[c.i]))),
             !.total_weight = FAdd(@, FromInt(c.weights[c.i])),
             !.i = @ + 1,
             !.pc = IF c.i = Len(c.solicitation_tags) THEN "decide" ELSE "embed_tag"]

TagScored_Unweighted(c, similarity) ==
    IF similarity.kind = "raise" THEN Finish(c, similarity)
    ELSE [c EXCEPT
             !.sum_weighted_sims = FAdd(@, similarity.value),
             !.total_weight = FAdd(@, FromInt(c.weights[c.i])),
             !.i = @ + 1,
             !.pc = IF c.i = Len(c.solicitation_tags) THEN "decide" ELSE "embed_tag"]

TagScored_CountsTags(c, similarity) ==
    IF similarity.kind = "raise" THEN Finish(c, similarity)
    ELSE [c EXCEPT
             !.sum_weighted_sims = FAdd(@, FMul(similarity.value, FromInt(c.weights[c.i]))),
             !.total_weight = FAdd(@, FromInt(1)),
             !.i = @ + 1,
             !.pc = IF c.i = Len(c.solicitation_tags) THEN "decide" ELSE "embed_tag"]

\* lines 234-236: the tag at position i scored with similarity
TagScored(c, similarity) ==
    IF similarity.kind = "raise" THEN Finish(c, similarity)
    ELSE [c EXCEPT
             !.sum_weighted_sims = FAdd(@, FMul(similarity.value, FromInt(c.weights[c.i]))),
             !.total_weight = FAdd(@, FromInt(c.weights[c.i])),
             !.i = @ + 1,
             !.pc = IF c.i = Len(c.solicitation_tags) THEN "decide" ELSE "embed_tag"]

StepEmbedTag_Memoized(c, r) ==
    IF r.kind = "raise"
    THEN Finish(Called(c, c.solicitation_tags[c.i], r), r)
    ELSE IF \E k \in 1..(c.i - 1) : c.solicitation_tags[k] = c.solicitation_tags[c.i]
         THEN TagScored(c, compute_cosine_similarity(c.article_embedding, r.value))
    ELSE TagScored(Called(c, c.solicitation_tags[c.i], r),
                   compute_cosine_similarity(c.article_embedding, r.value))

\* lines 227-236: one iteration of the loop over zip(weights, solicitation_tags)
StepEmbedTag(c, r) ==
    IF r.kind = "raise"
    THEN Finish(Called(c, c.solicitation_tags[c.i], r), r)
    ELSE TagScored(Called(c, c.solicitation_tags[c.i], r),
                   compute_cosine_similarity(c.article_embedding, r.value))

StepDecide_Strict(c) ==
    IF c.total_weight.m = <<>> THEN Finish(c, Raise("ZeroDivisionError"))
    ELSE Finish(c, Return(~FGe(c.threshold, FDiv(c.sum_weighted_sims, c.total_weight))))

\* lines 242-247
StepDecide(c) ==
    IF c.total_weight.m = <<>> THEN Finish(c, Raise("ZeroDivisionError"))
    ELSE Finish(c, Return(FGe(FDiv(c.sum_weighted_sims, c.total_weight), c.threshold)))

\* line 242
weighted_avg(c) == FDiv(c.sum_weighted_sims, c.total_weight)

\* line 245, f"{weighted_avg:.4f}": the digits of x to four decimals, as the
\* number of ten-thousandths (x >= 0): x * 10^4 rounded to the nearest
\* integer, ties to even
Format4(x) ==
    LET mag == BMulSmall(x.m, 10000)
        sh  == -x.e
        q   == BShr(mag, sh)
    IN  IF x.e >= 0 THEN BToInt(BShl(mag, x.e))
        ELSE IF BBit(mag, sh - 1) = 1 /\ (BLowSet(mag, sh - 1) \/ BBit(q, 0) = 1)
             THEN BToInt(BAdd(q, <<1>>))
        ELSE BToInt(q)

\* lines 160-247: the whole call, the embedding provider answering with rs
RECURSIVE RunRelevance(_, _)
RunRelevance(c, rs) ==
    IF c.pc = "prefilter" THEN RunRelevance(StepPreFilter(c), rs)
    ELSE IF c.pc = "check_tags" THEN RunRelevance(StepCheckTags(c), rs)
    ELSE IF c.pc = "decide" THEN RunRelevance(StepDecide(c), rs)
    ELSE IF c.pc = "done" \/ rs = <<>> THEN c
    ELSE IF c.pc = "embed_article"
         THEN RunRelevance(StepEmbedArticle(c, Head(rs)), Tail(rs))
    ELSE RunRelevance(StepEmbedTag(c, Head(rs)), Tail(rs))

(***************************************************************************)
(* The article loop of the pipelines: main_sam.run_sam_pipeline,           *)
(* main_eu.run_eu_pipeline, single_solicitation._process_sam_link and      *)
(* _process_eu_link, for one solicitation (in run_eu_pipeline, one with    *)
(* downloads).  An article is its text.                                    *)
(***************************************************************************)
MaxArticles == 2

PipelineKinds == {"run_sam_pipeline", "run_eu_pipeline",
                  "_process_sam_link", "_process_eu_link"}

\* the pipelines that guard their GPT calls with _safe_call
Guarded(kind) == kind # "run_eu_pipeline"

\* the attempts _safe_call makes (main_sam.py line 30, single_solicitation.py
\* lines 159 and 310)
MAX_GPT_RETRIES(kind) == IF kind = "_process_eu_link" THEN 3 ELSE 1

\* what _safe_call returns after its last attempt failed with e (main_sam.py
\* line 86: no error text; single_solicitation.py lines 168 and 319)
ErrorAfter(kind, e) ==
    "[ERROR after " \o ToString(MAX_GPT_RETRIES(kind)) \o " tries"
        \o (IF kind = "run_sam_pipeline" THEN "" ELSE ": " \o e) \o "]"

ArticleTexts == {<<"submarine">>, <<"subsidy">>}
ArticleStores == SeqsUpTo(ArticleTexts, MaxArticles)

\* what tag generation can answer: a tag list, or a failure
TagResponses == {Return(SubSeq(TagList, 1, 1)), Raise("OpenAIError")}

\* the solicitation on entry of the GPT chain; articles is what
\* load_articles_from_db returned.  tag_calls is the answers to the
\* invocations of generate_solicitation_tags so far, checks the activations
\* of article_is_relevant that have ended, impact_calls the invocations of
\* generate_news_impact_paragraph (the article and the answer).
Pipeline(kind, articles, sol_text) ==
    [kind         |-> kind,
     articles     |-> articles,
     sol_text     |-> sol_text,
     pc           |-> "tags",
     tags         |-> <<>>,
     tag_calls    |-> <<>>,
     art          |-> 0,
     checks       |-> <<>>,
     impact_calls |-> <<>>,
     news_impacts |-> <<>>,
     outcome      |-> None]

StepTags_Propagate(p, r) ==
    IF r.kind = "return"
    THEN [p EXCEPT !.tags = r.value, !.tag_calls = Append(@, r), !.pc = "articles"]
    ELSE [p EXCEPT !.tag_calls = Append(@, r), !.pc = "done", !.outcome = r]

\* tag generation answered r: a list, or a failure, which run_eu_pipeline
\* lets propagate and after which _safe_call tries again, up to
\* MAX_GPT_RETRIES attempts, and then returns an error string
StepTags(p, r) ==
    IF r.kind = "return"
    THEN [p EXCEPT !.tags = r.value, !.tag_calls = Append(@, r), !.pc = "articles"]
    ELSE IF ~Guarded(p.kind)
         THEN [p EXCEPT !.tag_calls = Append(@, r), !.pc = "done", !.outcome = r]
    ELSE IF Len(p.tag_calls) + 1 < MAX_GPT_RETRIES(p.kind)
         THEN [p EXCEPT !.tag_calls = Append(@, r)]
    ELSE [p EXCEPT !.tags = ErrorAfter(p.kind, r.error),
                   !.tag_calls = Append(@, r), !.pc = "row"]

\* for art in articles: the call of article_is_relevant for the next article
StepArticle(p) == [p EXCEPT !.art = @ + 1]

ArticleCall_FreshTags(p) ==
    article_is_relevant(p.articles[p.art + 1],
                        IF p.art = 0 THEN p.tags ELSE SubSeq(TagList, 1, 2),
                        p.sol_text, RELEVANCE_THRESHOLD, DEFAULT_LOCAL_THRESHOLD)

ArticleCall(p) ==
    article_is_relevant(p.articles[p.art + 1], p.tags, p.sol_text,
                        RELEVANCE_THRESHOLD, DEFAULT_LOCAL_THRESHOLD)

\* the activation c of article_is_relevant has ended
Checked(p, c) == [p EXCEPT !.checks = Append(@, c)]

\* the invocations of generate_news_impact_paragraph made for article a
ImpactCallsFor(p, a) == SelectSeq(p.impact_calls, LAMBDA x : x.article = a)

StepImpact_DropFailed(p, r) ==
    LET q == [p EXCEPT !.impact_calls = Append(@, [article |-> p.art, answer |-> r])]
    IN  IF r = "fail" THEN [q EXCEPT !.pc = "articles"]
    ELSE [q EXCEPT !.pc = "articles",
                   !.news_impacts = Append(@, [article |-> p.art, impact |-> r])]

\* the call returned TRUE and generate_news_impact_paragraph was invoked
\* for the article, with answer r: run_eu_pipeline lets a failure
\* propagate; _safe_call tries again (pc "impact") until MAX_GPT_RETRIES
\* invocations were made for the article, and then gives the error string
StepImpact(p, r) ==
    LET q == [p EXCEPT !.impact_calls = Append(@, [article |-> p.art, answer |-> r])]
    IN  IF r = "fail" /\ ~Guarded(p.kind)
        THEN [q EXCEPT !.pc = "done", !.outcome = Raise("OpenAIError")]
        ELSE IF r = "fail" /\ Len(ImpactCallsFor(q, p.art)) < MAX_GPT_RETRIES(p.kind)
        THEN [q EXCEPT !.pc = "impact"]
        ELSE [q EXCEPT !.pc = "articles",
                       !.news_impacts =
                           Append(@, [article |-> p.art,
                                      impact  |-> IF r = "fail"
                                                  THEN ErrorAfter(p.kind, "OpenAIError")
                                                  ELSE r])]

\* the call raised e: run_sam_pipeline catches it for the whole notice
\* (main_sam.py lines 144-149), the others let it propagate
StepArticleRaised(p, e) ==
    IF p.kind = "run_sam_pipeline"
    THEN [p EXCEPT !.pc = "done", !.outcome = Return([error |-> e.error])]
    ELSE [p EXCEPT !.pc = "done", !.outcome = e]

\* tag generation has ended in failure: tags is the error string of
\* _safe_call, not a list (isinstance(tags, list) is false)
TagsFailed(p) ==
    /\ p.pc # "tags"
    /\ p.tag_calls # <<>>
    /\ p.tag_calls[Len(p.tag_calls)].kind = "raise"

\* "; ".join(tags)
RECURSIVE Join(_)
Join(tags) ==
    IF tags = <<>> THEN ""
    ELSE IF Len(tags) = 1 THEN tags[1]
    ELSE tags[1] \o "; " \o Join(Tail(tags))

\* the tags field of the row: tag_text in run_sam_pipeline (the joined tags,
\* or the error string), the joined tags in run_eu_pipeline, and in
\* _process_sam_link and _process_eu_link the list, or the list of the
\* error string
TagsField(p) ==
    IF p.kind \in {"_process_sam_link", "_process_eu_link"}
    THEN IF TagsFailed(p) THEN <<p.tags>> ELSE p.tags
    ELSE IF TagsFailed(p) THEN p.tags ELSE Join(p.tags)

\* the row of the solicitation
StepRow(p) ==
    [p EXCEPT !.pc = "done",
              !.outcome = Return([tags |-> TagsField(p), news_impacts |-> p.news_impacts])]

(***************************************************************************)
(* State.  args and ret: one call of a pure function (its arguments, its   *)
(* result).  call: the activation of article_is_relevant (the one that     *)
(* raised, once a pipeline has ended on it).  pipe: the pipeline           *)
(* processing one solicitation.  sam: the process running run_sam_pipeline.*)
(* disk: the files it reads and writes.                                    *)
(***************************************************************************)
VARIABLES args, ret, call, pipe, sam, disk

vars == <<args, ret, call, pipe, sam, disk>>

NoCall == [pc |-> "none"]
NoPipe == [pc |-> "none"]
NoSam == [pc |-> "none"]
NoDisk == [pc |-> "none"]

\* ---- compute_cosine_similarity on every pair of vectors
CosInit ==
    /\ args \in Vectors \X Vectors
    /\ ret = None
    /\ call = NoCall
    /\ pipe = NoPipe
    /\ sam = NoSam
    /\ disk = NoDisk

CosineCall ==
    /\ ret = None
    /\ Len(args) = 2
    /\ ret' = compute_cosine_similarity(args[1], args[2])
    /\ UNCHANGED <<args, call, pipe, sam, disk>>

SpecCosine == CosInit /\ [][CosineCall]_vars

\* ---- passes_local_pre_filter on every pair of texts
FilterThresholds == {FromInt(0), DEFAULT_LOCAL_THRESHOLD, FromInt(1)}

FilterInit ==
    /\ args \in Texts \X Texts \X FilterThresholds
    /\ ret = None
    /\ call = NoCall
    /\ pipe = NoPipe
    /\ sam = NoSam
    /\ disk = NoDisk

PreFilterCall ==
    /\ ret = None
    /\ Len(args) = 3
    /\ ret' = passes_local_pre_filter(args[1], args[2], args[3])
    /\ UNCHANGED <<args, call, pipe, sam, disk>>

SpecFilter == FilterInit /\ [][PreFilterCall]_vars

\* ---- article_is_relevant
RelArticleTexts == {<<>>, <<"submarine">>, <<"submarine", "subsidy">>}
RelSolicitationTexts == {<<>>, <<"submarine">>}

Init ==
    /\ args = <<>>
    /\ ret = None
    /\ pipe = NoPipe
    /\ sam = NoSam
    /\ disk = NoDisk
    /\ \E article_text \in RelArticleTexts, solicitation_text \in RelSolicitationTexts,
          solicitation_tags \in TagLists,
          threshold \in Thresholds, local_threshold \in LocalThresholds :
          call = article_is_relevant(article_text, solicitation_tags,
                                     solicitation_text, threshold, local_threshold)

PreFilter ==
    /\ call.pc = "prefilter"
    /\ call' = StepPreFilter(call)
    /\ UNCHANGED <<args, ret, pipe, sam, disk>>

CheckTags ==
    /\ call.pc = "check_tags"
    /\ call' = StepCheckTags(call)
    /\ UNCHANGED <<args, ret, pipe, sam, disk>>

EmbedArticle ==
    /\ call.pc = "embed_article"
    /\ \E r \in EmbedResponses : call' = StepEmbedArticle(call, r)
    /\ UNCHANGED <<args, ret, pipe, sam, disk>>

EmbedTag ==
    /\ call.pc = "embed_tag"
    /\ \E r \in EmbedResponses : call' = StepEmbedTag(call, r)
    /\ UNCHANGED <<args, ret, pipe, sam, disk>>

Decide_Sticky ==
    /\ call.pc = "decide"
    /\ call' = IF pipe.pc # "none" /\ pipe.news_impacts # <<>>
               THEN Finish(call, Return(TRUE))
               ELSE StepDecide(call)
    /\ UNCHANGED <<args, ret, pipe, sam, disk>>

Decide ==
    /\ call.pc = "decide"
    /\ call' = StepDecide(call)
    /\ UNCHANGED <<args, ret, pipe, sam, disk>>

Next == PreFilter \/ CheckTags \/ EmbedArticle \/ EmbedTag \/ Decide

Spec == Init /\ [][Next]_vars

\* ---- the pipelines, one solicitation
PipeResponses == {"paragraph", "fail"}

PipeInit ==
    /\ args = <<>>
    /\ ret = None
    /\ call = NoCall
    /\ sam = NoSam
    /\ disk = NoDisk
    /\ \E kind \in PipelineKinds, articles \in ArticleStores :
          pipe = Pipeline(kind, articles, <<"submarine">>)

GenerateTags ==
    /\ pipe.pc = "tags"
    /\ \E r \in TagResponses : pipe' = StepTags(pipe, r)
    /\ UNCHANGED <<args, ret, call, sam, disk>>

NextArticle ==
    /\ pipe.pc = "articles"
    /\ call = NoCall
    /\ pipe.art < Len(pipe.articles)
    /\ call' = ArticleCall(pipe)
    /\ pipe' = StepArticle(pipe)
    /\ UNCHANGED <<args, ret, sam, disk>>

ArticleIrrelevant ==
    /\ pipe.pc = "articles"
    /\ call.pc = "done"
    /\ call.result = Return(FALSE)
    /\ pipe' = Checked(pipe, call)
    /\ call' = NoCall
    /\ UNCHANGED <<args, ret, sam, disk>>

\* the call returned TRUE: the impact paragraph is requested (again, after
\* a failure that _safe_call retries)
ArticleRelevant ==
    /\ pipe.pc \in {"articles", "impact"}
    /\ call.pc = "done"
    /\ call.result = Return(TRUE)
    /\ \E r \in PipeResponses :
          pipe' = StepImpact(IF pipe.pc = "impact" THEN pipe ELSE Checked(pipe, call), r)
    /\ call' = IF pipe'.pc = "impact" THEN call ELSE NoCall
    /\ UNCHANGED <<args, ret, sam, disk>>

ArticleRaised ==
    /\ pipe.pc = "articles"
    /\ call.pc = "done"
    /\ call.result.kind = "raise"
    /\ pipe' = StepArticleRaised(Checked(pipe, call), call.result)
    /\ UNCHANGED <<args, ret, call, sam, disk>>

Row ==
    /\ \/ pipe.pc = "row"
       \/ pipe.pc = "articles" /\ call = NoCall /\ pipe.art = Len(pipe.articles)
    /\ pipe' = StepRow(pipe)
    /\ UNCHANGED <<args, ret, call, sam, disk>>

PipeNext ==
    \/ GenerateTags \/ NextArticle \/ ArticleIrrelevant \/ ArticleRelevant
    \/ ArticleRaised \/ Row \/ Next

SpecPipeline == PipeInit /\ [][PipeNext]_vars


\* ---- the scorer of article_is_relevant (lines 224-247) with mocked
\* similarities: args is the sequence of the similarities that
\* compute_cosine_similarity returned so far
Similarities == {FLit(9, 10), FLit(85, 100), FLit(8, 10), FromInt(0), FromInt(1)}

ScorerInit ==
    /\ args = <<>>
    /\ ret = None
    /\ pipe = NoPipe
    /\ sam = NoSam
    /\ disk = NoDisk
    /\ \E solicitation_tags \in TagLists \ {<<>>}, threshold \in {FLit(3, 4), RELEVANCE_THRESHOLD} :
          call = StepEmbedArticle(
                     StepCheckTags(
                         PreFilterGate(
                             article_is_relevant(<<"submarine">>, solicitation_tags,
                                                 <<"submarine">>, threshold,
                                                 DEFAULT_LOCAL_THRESHOLD),
                             Return(TRUE))),
                     Return(<<1, 0>>))

ScoreTag ==
    /\ call.pc = "embed_tag"
    /\ \E similarity \in Similarities :
          /\ call' = TagScored(call, Return(similarity))
          /\ args' = Append(args, similarity)
    /\ UNCHANGED <<ret, pipe, sam, disk>>

SpecScorer == ScorerInit /\ [][ScoreTag \/ Decide]_vars

(***************************************************************************)
(* The chat-completion functions: news_relevance.generate_tags_multi_step  *)
(* and gpt_analysis.generate_insights, generate_swot_analysis,             *)
(* generate_solicitation_tags.  call is the activation of one of them.  A  *)
(* text is a sequence of characters; the model (openai.ChatCompletion)     *)
(* answers each call with a text or fails.                                 *)
(***************************************************************************)
MaxChars == 4

Chars == {"a", "b", " ", ","}
ChatTexts == SeqsUpTo(Chars, MaxChars)

\* str.strip()
RECURSIVE Strip(_)
Strip(s) ==
    IF s = <<>> THEN s
    ELSE IF Head(s) = " " THEN Strip(Tail(s))
    ELSE IF s[Len(s)] = " " THEN Strip(SubSeq(s, 1, Len(s) - 1))
    ELSE s

\* str.split(","), the piece that begins at position k and the ones after it
RECURSIVE Split(_, _, _)
Split(s, k, j) ==
    IF j > Len(s) THEN <<SubSeq(s, k, Len(s))>>
    ELSE IF s[j] = "," THEN <<SubSeq(s, k, j - 1)>> \o Split(s, j + 1, j + 1)
    ELSE Split(s, k, j + 1)

ParseTags_NoStrip(content) ==
    SelectSeq(Split(content, 1, 1), LAMBDA t : Strip(t) # <<>>)

\* [t.strip() for t in content.split(",") if t.strip()]
ParseTags(content) ==
    SelectSeq([k \in 1..Len(Split(content, 1, 1)) |-> Strip(Split(content, 1, 1)[k])],
              LAMBDA t : t # <<>>)

\* the failures of a completion call: each an exception type and the text
\* of its message
ChatErrors ==
    {[type |-> "InvalidRequestError", text |-> "maximum context length"],
     [type |-> "RateLimitError",      text |-> "request too large"],
     [type |-> "RateLimitError",      text |-> "rate limit reached"],
     [type |-> "APIError",            text |-> "maximum context length"]}

ChatResponses == {Return(t) : t \in ChatTexts} \cup {Raise(e) : e \in ChatErrors}

\* the domain lines the model returns at step 1
DomainResponses ==
    {Return(<<"a">>), Return(<<" ", "a", " ">>), Return(<<"a", ",", "b">>)}
        \cup {Raise(e) : e \in ChatErrors}

\* news_relevance.py lines 70-98: the activation on entry.  chat_calls is the
\* prompts of the completion calls issued so far, responses their answers.
generate_tags_multi_step(article_text) ==
    [fn           |-> "generate_tags_multi_step",
     article_text |-> article_text,
     pc           |-> "step1",
     domain_line  |-> <<>>,
     chat_calls   |-> <<>>,
     responses    |-> <<>>,
     result       |-> None]

MAX_INTERNAL_RETRIES == 3

\* the literals 0.05 of the while condition and 0.8 of reduction_pct *= 0.8
MinReductionPct == FLit(5, 100)
ReductionFactor == FLit(8, 10)

RetryFunctions ==
    {"generate_insights", "generate_swot_analysis", "generate_solicitation_tags"}

\* gpt_analysis.py lines 17-33, 83-98, 137-150: the activation of fn on entry
gpt_analysis(fn) ==
    [fn             |-> fn,
     pc             |-> "setup",
     reduction_pct  |-> FromInt(1),
     step           |-> 0,
     chat_calls     |-> <<>>,
     responses      |-> <<>>,
     truncated_logs |-> <<>>,
     result         |-> None]

\* the while condition (lines 35, 100, 152)
RetryLoopRuns(c) ==
    FCmp(c.reduction_pct, MinReductionPct) = 1 /\ c.step < MAX_INTERNAL_RETRIES

ContextTooLong_AnyOfTheTypes(e) ==
    e.type \in {"InvalidRequestError", "RateLimitError"}

\* the except clause (lines 68-70, 126-128, 175-177)
ContextTooLong(e) ==
    /\ e.type \in {"InvalidRequestError", "RateLimitError"}
    /\ e.text \in {"maximum context length", "request too large"}

GptInit ==
    /\ args = <<>>
    /\ ret = None
    /\ pipe = NoPipe
    /\ sam = NoSam
    /\ disk = NoDisk
    /\ \/ call = generate_tags_multi_step(<<"submarine">>)
       \/ \E fn \in RetryFunctions : call = gpt_analysis(fn)

\* ---- generate_tags_multi_step
IdentifyDomain_Swallow ==
    /\ call.pc = "step1"
    /\ \E r \in DomainResponses :
          call' = [call EXCEPT
                      !.chat_calls = Append(@, [step |-> 1, article_text |-> call.article_text]),
                      !.responses = Append(@, r),
                      !.domain_line = IF r.kind = "raise" THEN <<>> ELSE Strip(r.value),
                      !.pc = "step2"]
    /\ UNCHANGED <<args, ret, pipe, sam, disk>>

\* lines 99-108: the domain-identification call
IdentifyDomain ==
    /\ call.pc = "step1"
    /\ \E r \in DomainResponses :
          call' = IF r.kind = "raise"
                  THEN Finish([call EXCEPT
                                  !.chat_calls = Append(@, [step |-> 1, article_text |-> call.article_text]),
                                  !.responses = Append(@, r)], r)
                  ELSE [call EXCEPT
                           !.chat_calls = Append(@, [step |-> 1, article_text |-> call.article_text]),
                           !.responses = Append(@, r),
                           !.domain_line = Strip(r.value),
                           !.pc = "step2"]
    /\ UNCHANGED <<args, ret, pipe, sam, disk>>

GenerateFinalTags_NoDomain ==
    /\ call.pc = "step2"
    /\ \E r \in ChatResponses :
          call' = Finish([call EXCEPT
                             !.chat_calls = Append(@, [step |-> 2, domain_line |-> <<>>,
                                                       article_text |-> call.article_text]),
                             !.responses = Append(@, r)],
                         IF r.kind = "raise" THEN r ELSE Return(ParseTags(Strip(r.value))))
    /\ UNCHANGED <<args, ret, pipe, sam, disk>>

\* lines 116-157: the tag-extraction call, its prompt built from domain_line
GenerateFinalTags ==
    /\ call.pc = "step2"
    /\ \E r \in ChatResponses :
          call' = Finish([call EXCEPT
                             !.chat_calls = Append(@, [step |-> 2, domain_line |-> call.domain_line,
                                                       article_text |-> call.article_text]),
                             !.responses = Append(@, r)],
                         IF r.kind = "raise" THEN r ELSE Return(ParseTags(Strip(r.value))))
    /\ UNCHANGED <<args, ret, pipe, sam, disk>>

\* ---- generate_insights, generate_swot_analysis, generate_solicitation_tags
\* lines 24-33: tiktoken.get_encoding and extract_text_from_pdfs succeed or
\* raise
Setup ==
    /\ call.pc = "setup"
    /\ \/ call' = [call EXCEPT !.pc = "loop"]
       \/ call' = Finish(call, Raise([type |-> "Exception", text |-> "setup"]))
    /\ UNCHANGED <<args, ret, pipe, sam, disk>>

Attempt_Uncapped ==
    /\ call.pc = "loop"
    /\ FCmp(call.reduction_pct, MinReductionPct) = 1
    /\ \E r \in ChatResponses :
          call' = IF r.kind = "return"
                  THEN Finish([call EXCEPT !.chat_calls = Append(@, [fn |-> call.fn, reduction_pct |-> call.reduction_pct]),
                                           !.responses = Append(@, r)],
                              Return(IF call.fn = "generate_solicitation_tags"
                                     THEN ParseTags(r.value) ELSE Strip(r.value)))
                  ELSE IF ContextTooLong(r.error)
                  THEN [call EXCEPT !.chat_calls = Append(@, [fn |-> call.fn, reduction_pct |-> call.reduction_pct]),
                                    !.responses = Append(@, r),
                                    !.reduction_pct = FMul(@, ReductionFactor)]
                  ELSE Finish([call EXCEPT !.chat_calls = Append(@, [fn |-> call.fn, reduction_pct |-> call.reduction_pct]),
                                           !.responses = Append(@, r)], r)
    /\ UNCHANGED <<args, ret, pipe, sam, disk>>

\* lines 35-77, 100-132, 152-181: one iteration of the while loop
Attempt ==
    /\ call.pc = "loop"
    /\ RetryLoopRuns(call)
    /\ \E r \in ChatResponses :
          call' = IF r.kind = "return"
                  THEN Finish([call EXCEPT !.step = @ + 1,
                                           !.chat_calls = Append(@, [fn |-> call.fn, reduction_pct |-> call.reduction_pct]),
                                           !.responses = Append(@, r)],
                              Return(IF call.fn = "generate_solicitation_tags"
                                     THEN ParseTags(r.value) ELSE Strip(r.value)))
                  ELSE IF ContextTooLong(r.error)
                  THEN [call EXCEPT !.step = @ + 1,
                                    !.chat_calls = Append(@, [fn |-> call.fn, reduction_pct |-> call.reduction_pct]),
                                    !.responses = Append(@, r),
                                    !.reduction_pct = FMul(@, ReductionFactor),
                                    !.truncated_logs = Append(@, [step |-> call.step + 1,
                                                                  reduction_pct |-> FMul(call.reduction_pct, ReductionFactor)])]
                  ELSE Finish([call EXCEPT !.step = @ + 1,
                                           !.chat_calls = Append(@, [fn |-> call.fn, reduction_pct |-> call.reduction_pct]),
                                           !.responses = Append(@, r)], r)
    /\ UNCHANGED <<args, ret, pipe, sam, disk>>

\* lines 79, 133, 182: the loop has ended without a return.  The raise
\* statement builds InvalidRequestError from a message alone; in the releases
\* of the openai library whose constructor requires param as well, building
\* it raises TypeError instead.
Exhausted ==
    /\ call.pc = "loop"
    /\ ~RetryLoopRuns(call)
    /\ \E type \in {"InvalidRequestError", "TypeError"} :
          call' = Finish(call, Raise([type |-> type, text |-> "too_many_retries"]))
    /\ UNCHANGED <<args, ret, pipe, sam, disk>>

GptNext == IdentifyDomain \/ GenerateFinalTags \/ Setup \/ Attempt \/ Exhausted

SpecGpt == GptInit /\ [][GptNext]_vars

\* every call of the provider is answered and every step is taken
FairSpecGpt == SpecGpt /\ WF_vars(GptNext)

(***************************************************************************)
(* main_sam.run_sam_pipeline: the process (sam) and the files it reads and *)
(* writes (disk): notice_cache_file, processed_cache_file and out_json.    *)
(* The process can be stopped between two notices and started again.  A    *)
(* notice is its sam_id, "" when it has none; a dict is a function; a file *)
(* is None while it does not exist and [content |-> c] once written.       *)
(***************************************************************************)
MaxNotices == 2
MaxRuns == 2

NoticeLists == SeqsUpTo({[sam_id |-> "A"], [sam_id |-> ""]}, MaxNotices)

\* notice.get(key)
Get(notice, key) == IF key \in DOMAIN notice THEN notice[key] ELSE None

\* line 61: notice.get("sam_id") or f"idx_{n_idx}"
NoticeId(notice, n_idx) ==
    IF notice.sam_id # "" THEN [sam_id |-> notice.sam_id] ELSE [idx |-> n_idx]

\* what a guarded GPT call (_safe_call) gives for insights and swot
GuardedTexts == {"text", ErrorAfter("run_sam_pipeline", "OpenAIError")}

\* no process is running; the caches may or may not exist yet.  runs counts
\* the processes started so far; called is the notices (with the run) for
\* which processing has begun, loaded the notice ids that each run found in
\* the processed cache when it started.
SamInit ==
    /\ args = <<>>
    /\ ret = None
    /\ call = NoCall
    /\ pipe = NoPipe
    /\ sam = [pc |-> "idle", runs |-> 0, called |-> {}, loaded |-> <<>>]
    /\ \E notice_cache \in {[content |-> notices] : notices \in NoticeLists} \cup {None} :
          disk = [notice_cache |-> notice_cache, processed_cache |-> None, out_json |-> None]

\* lines 28-57: the process starts, loads or fetches the notices, loads the
\* processed cache and the articles
SamStart ==
    /\ sam.pc = "idle"
    /\ sam.runs < MaxRuns
    /\ \E notices \in NoticeLists, articles \in SeqsUpTo({<<"submarine">>}, 1) :
          /\ disk.notice_cache # None => notices = disk.notice_cache.content
          /\ disk' = [disk EXCEPT !.notice_cache = [content |-> notices]]
          /\ sam' = [pc              |-> "loop",
                     runs            |-> sam.runs + 1,
                     called          |-> sam.called,
                     loaded          |-> Append(sam.loaded,
                                               IF disk.processed_cache = None THEN {}
                                               ELSE DOMAIN disk.processed_cache.content),
                     notices         |-> notices,
                     processed_cache |-> IF disk.processed_cache = None THEN <<>>
                                         ELSE disk.processed_cache.content,
                     rows            |-> <<>>,
                     articles        |-> articles,
                     n_idx           |-> 0,
                     notice_id       |-> None,
                     insights        |-> None,
                     swot            |-> None]
    /\ UNCHANGED <<args, ret, call, pipe>>

\* the notice the loop takes next
NextNoticeId == NoticeId(sam.notices[sam.n_idx + 1], sam.n_idx + 1)

\* lines 60-65: the notice is in the processed cache
SamSkipCached ==
    /\ sam.pc = "loop"
    /\ sam.n_idx < Len(sam.notices)
    /\ NextNoticeId \in DOMAIN sam.processed_cache
    /\ sam' = [sam EXCEPT !.n_idx = @ + 1,
                          !.notice_id = NextNoticeId,
                          !.rows = Append(@, sam.processed_cache[NextNoticeId])]
    /\ UNCHANGED <<args, ret, call, pipe, disk>>

SamBegin_Always ==
    /\ sam.pc = "loop"
    /\ sam.n_idx < Len(sam.notices)
    /\ \E insights, swot \in GuardedTexts :
          sam' = [sam EXCEPT !.pc = "notice",
                             !.n_idx = @ + 1,
                             !.notice_id = NextNoticeId,
                             !.called = @ \cup {[run |-> sam.runs, notice_id |-> NextNoticeId]},
                             !.insights = insights,
                             !.swot = swot]
    /\ pipe' = Pipeline("run_sam_pipeline", sam.articles, <<"submarine">>)
    /\ UNCHANGED <<args, ret, call, disk>>

\* lines 60-100: the notice is not in the processed cache; its attachments
\* are filtered and the guarded calls for insights and swot are made
SamBegin ==
    /\ sam.pc = "loop"
    /\ sam.n_idx < Len(sam.notices)
    /\ NextNoticeId \notin DOMAIN sam.processed_cache
    /\ \E insights, swot \in GuardedTexts :
          sam' = [sam EXCEPT !.pc = "notice",
                             !.n_idx = @ + 1,
                             !.notice_id = NextNoticeId,
                             !.called = @ \cup {[run |-> sam.runs, notice_id |-> NextNoticeId]},
                             !.insights = insights,
                             !.swot = swot]
    /\ pipe' = Pipeline("run_sam_pipeline", sam.articles, <<"submarine">>)
    /\ UNCHANGED <<args, ret, call, disk>>

SamEnd_StopOnError ==
    /\ sam.pc = "notice"
    /\ pipe.pc = "done"
    /\ "error" \in DOMAIN pipe.outcome.value
    /\ sam' = [pc |-> "idle", runs |-> sam.runs, called |-> sam.called, loaded |-> sam.loaded]
    /\ pipe' = NoPipe
    /\ call' = NoCall
    /\ UNCHANGED <<args, ret, disk>>

\* lines 125-149: the notice has its row, or its processing raised: the
\* processed cache is updated and written to disk (_flush_cache)
SamEnd ==
    /\ sam.pc = "notice"
    /\ pipe.pc = "done"
    /\ LET row == IF "error" \in DOMAIN pipe.outcome.value
                  THEN pipe.outcome.value
                  ELSE [source       |-> "SAM.gov",
                        sam_id       |-> sam.notice_id,
                        solicitation |-> Get(sam.notices[sam.n_idx], "solicitation"),
                        link         |-> Get(sam.notices[sam.n_idx], "link"),
                        naics        |-> Get(sam.notices[sam.n_idx], "naics"),
                        status       |-> Get(sam.notices[sam.n_idx], "status"),
                        title        |-> Get(sam.notices[sam.n_idx], "title"),
                        insights     |-> sam.insights,
                        swot         |-> sam.swot,
                        tags         |-> pipe.outcome.value.tags,
                        news_impacts |-> pipe.outcome.value.news_impacts]
       IN  /\ sam' = [sam EXCEPT
                         !.pc = "loop",
                         !.rows = IF "error" \in DOMAIN row THEN @ ELSE Append(@, row),
                         !.processed_cache = (sam.notice_id :> row) @@ @]
           /\ disk' = [disk EXCEPT
                          !.processed_cache =
                              [content |-> (sam.notice_id :> row) @@ sam.processed_cache]]
    /\ pipe' = NoPipe
    /\ call' = NoCall
    /\ UNCHANGED <<args, ret>>

\* the process is stopped between two notices: its memory is lost, the
\* files stay
SamInterrupt ==
    /\ sam.pc = "loop"
    /\ sam' = [pc |-> "idle", runs |-> sam.runs, called |-> sam.called, loaded |-> sam.loaded]
    /\ UNCHANGED <<args, ret, call, pipe, disk>>

\* lines 151-157: every notice was taken; out_json is written and the rows
\* are returned
SamFinish ==
    /\ sam.pc = "loop"
    /\ sam.n_idx = Len(sam.notices)
    /\ disk' = [disk EXCEPT !.out_json = [content |-> sam.rows]]
    /\ sam' = [pc |-> "idle", runs |-> sam.runs, called |-> sam.called, loaded |-> sam.loaded]
    /\ ret' = Return(sam.rows)
    /\ UNCHANGED <<args, call, pipe>>

SamNext ==
    \/ SamStart \/ SamSkipCached \/ SamBegin \/ SamEnd \/ SamInterrupt \/ SamFinish
    \/ PipeNext

SpecSam == SamInit /\ [][SamNext]_vars

\* the process is never stopped from outside: a run that has started goes on
\* as long as it has a step to take
SamRun ==
    \/ SamStart \/ SamSkipCached \/ SamBegin \/ SamEnd \/ SamFinish
    \/ PipeNext

\* the states in which SamRun has no step to take: the last run has ended
SamDone == sam.pc = "idle" /\ sam.runs = MaxRuns

\* weak fairness of SamRun (WF_vars(SamRun), written with the states in which
\* SamRun is not enabled): a run that can take a step eventually takes one
FairSpecSam ==
    SamInit /\ [][SamRun]_vars /\ ([]<>SamDone \/ []<><<SamRun>>_vars)

(***************************************************************************)
(* _safe_call, the guard of the GPT calls in run_sam_pipeline,             *)
(* _process_sam_link and _process_eu_link: for i in range(1,               *)
(* MAX_GPT_RETRIES + 1), try fn, return its value, or on the last i the    *)
(* error string.  answers is what the invocations of fn gave so far.       *)
(***************************************************************************)
GuardedFunctions == {"generate_insights", "generate_swot_analysis",
                     "generate_solicitation_tags", "generate_news_impact_paragraph"}

\* what an invocation of fn can give: its value, or an exception
SafeAnswers == {Return("text"), Raise("OpenAIError"), Raise("TypeError")}

safe_call(kind, fn) ==
    [kind |-> kind, fn |-> fn, pc |-> "try", i |-> 1, answers |-> <<>>, result |-> None]

StepSafeCall_Reraise(c, r) ==
    IF r.kind = "return" \/ c.i = MAX_GPT_RETRIES(c.kind)
    THEN [c EXCEPT !.answers = Append(@, r), !.pc = "done", !.result = r]
    ELSE [c EXCEPT !.answers = Append(@, r), !.i = @ + 1]

\* one iteration: fn answered r
StepSafeCall(c, r) ==
    IF r.kind = "return"
    THEN [c EXCEPT !.answers = Append(@, r), !.pc = "done", !.result = r]
    ELSE IF c.i = MAX_GPT_RETRIES(c.kind)
         THEN [c EXCEPT !.answers = Append(@, r), !.pc = "done",
                        !.result = Return(ErrorAfter(c.kind, r.error))]
    ELSE [c EXCEPT !.answers = Append(@, r), !.i = @ + 1]

SafeInit ==
    /\ args = <<>>
    /\ ret = None
    /\ pipe = NoPipe
    /\ sam = NoSam
    /\ disk = NoDisk
    /\ \E kind \in {k \in PipelineKinds : Guarded(k)}, fn \in GuardedFunctions :
          call = safe_call(kind, fn)

SafeAttempt ==
    /\ call.pc = "try"
    /\ \E r \in SafeAnswers : call' = StepSafeCall(call, r)
    /\ UNCHANGED <<args, ret, pipe, sam, disk>>

SpecSafe == SafeInit /\ [][SafeAttempt]_vars

(***************************************************************************)
(* eu_api_fetcher.fetch_all_pages.  fetch_page gives the JSON of the       *)
(* response, or {} on an HTTP error or a request exception.  A page is the *)
(* number it was requested with and, when the response has one, its        *)
(* totalResults; answers is what fetch_page gave, in the order of calls.   *)
(***************************************************************************)
MaxPages == 4
EU_PAGE_SIZE == 100

EmptyDict == [len |-> 0]

\* the totalResults of a first page: around the multiples of the page size
TotalResults ==
    {n \in 0..(MaxPages * EU_PAGE_SIZE) : n % EU_PAGE_SIZE \in {0, 1, EU_PAGE_SIZE - 1}}

\* what fetch_page(page_number) can give
PageAnswers(page_number) ==
    {EmptyDict, [pageNumber |-> page_number]}
        \cup {[pageNumber |-> page_number, totalResults |-> n] : n \in TotalResults}

fetch_all_pages ==
    [pc |-> "first", page_number |-> 1, total_pages |-> 0, answers |-> <<>>,
     all_pages_data |-> <<>>, result |-> None]

TotalPages_Floor(total_results) == total_results \div EU_PAGE_SIZE

\* line 55
TotalPages(total_results) ==
    (total_results \div EU_PAGE_SIZE) + (IF total_results % EU_PAGE_SIZE # 0 THEN 1 ELSE 0)

\* lines 48-60: the first page
StepFirstPage(c, d) ==
    IF d = EmptyDict
    THEN [c EXCEPT !.answers = Append(@, d), !.pc = "done", !.result = Return(<<>>)]
    ELSE [c EXCEPT !.answers = Append(@, d),
                   !.pc = "loop",
                   !.page_number = 2,
                   !.total_pages = TotalPages(IF "totalResults" \in DOMAIN d
                                              THEN d.totalResults ELSE 0),
                   !.all_pages_data = <<d>>]

\* lines 63-70: one page of range(2, total_pages + 1)
StepNextPage(c, d) ==
    [c EXCEPT !.answers = Append(@, d),
              !.page_number = @ + 1,
              !.all_pages_data = IF d = EmptyDict THEN @ ELSE Append(@, d)]

FetchInit ==
    /\ args = <<>>
    /\ ret = None
    /\ call = fetch_all_pages
    /\ pipe = NoPipe
    /\ sam = NoSam
    /\ disk = NoDisk

FetchFirst ==
    /\ call.pc = "first"
    /\ \E d \in PageAnswers(1) : call' = StepFirstPage(call, d)
    /\ UNCHANGED <<args, ret, pipe, sam, disk>>

\* a later page answers with the totalResults of the result set, or fails
FetchNext ==
    /\ call.pc = "loop"
    /\ call.page_number <= call.total_pages
    /\ \E d \in {EmptyDict, [call.all_pages_data[1] EXCEPT !.pageNumber = call.page_number]} :
          call' = StepNextPage(call, d)
    /\ UNCHANGED <<args, ret, pipe, sam, disk>>

\* line 72
FetchReturn ==
    /\ call.pc = "loop"
    /\ call.page_number > call.total_pages
    /\ call' = [call EXCEPT !.pc = "done", !.result = Return(call.all_pages_data)]
    /\ UNCHANGED <<args, ret, pipe, sam, disk>>

SpecFetch == FetchInit /\ [][FetchFirst \/ FetchNext \/ FetchReturn]_vars

(***************************************************************************)
(* single_solicitation.process_single_url.  The module defines the         *)
(* function twice (lines 76-98 and 386-398): the name is bound to the      *)
(* second definition when the module has been loaded, and that is the one  *)
(* every caller gets.  A URL is a string.                                  *)
(***************************************************************************)
\* the positions at which sub occurs in s
Find(s, sub) ==
    {i \in 1..(Len(s) - Len(sub) + 1) : SubSeq(s, i, i + Len(sub) - 1) = sub}

\* sub in s
Contains(s, sub) == Find(s, sub) # {}

Least(S) == CHOOSE i \in S : \A j \in S : i <= j

\* url.strip()
RECURSIVE StripUrl(_)
StripUrl(url) ==
    IF url = "" THEN url
    ELSE IF SubSeq(url, 1, 1) = " " THEN StripUrl(SubSeq(url, 2, Len(url)))
    ELSE IF SubSeq(url, Len(url), Len(url)) = " " THEN StripUrl(SubSeq(url, 1, Len(url) - 1))
    ELSE url

\* lines 31-32
is_sam_url(url) == Contains(url, "sam.gov") /\ Contains(url, "/opp/")

\* lines 34-35
is_eu_url(url) == Contains(url, "reference=")

\* lines 37-42: re.search(r"/tender-details/[0-9a-fA-F\-]+-CN", url)
is_eu_guid_url(url) ==
    LET Class == {"0", "1", "2", "3", "4", "5", "6", "7", "8", "9", "-",
                  "a", "b", "c", "d", "e", "f", "A", "B", "C", "D", "E", "F"}
    IN  \E i \in Find(url, "/tender-details/") :
           \E k \in 1..(Len(url) - i - 18) :
              /\ \A j \in (i + 16)..(i + 15 + k) : SubSeq(url, j, j) \in Class
              /\ SubSeq(url, i + 16 + k, i + 18 + k) = "-CN"

\* urlparse(url).query of a URL without fragment
QueryOf(url) ==
    IF Contains(url, "?") THEN SubSeq(url, Least(Find(url, "?")) + 1, Len(url)) ELSE ""

\* urlparse(url).path, after its host, of a URL that has a path
PathOf(url) ==
    IF Contains(url, "?") THEN SubSeq(url, 1, Least(Find(url, "?")) - 1) ELSE url

\* lines 44-52: parsed.path.rstrip("/").split("/")[-1]
RECURSIVE LastSegment(_)
LastSegment(path) ==
    IF path = "" THEN path
    ELSE IF SubSeq(path, Len(path), Len(path)) = "/"
         THEN LastSegment(SubSeq(path, 1, Len(path) - 1))
    ELSE IF Contains(path, "/")
         THEN SubSeq(path, (CHOOSE i \in Find(path, "/") : \A j \in Find(path, "/") : j <= i) + 1,
                     Len(path))
    ELSE path

extract_eu_guid_reference(url) == LastSegment(PathOf(url))

\* lines 55-65: parse_qs(parsed.query) of a query with one parameter; a
\* parameter with a blank value is dropped
parse_eu_reference(url) ==
    LET query == QueryOf(url)
        Value(name) == IF Len(query) > Len(name) + 1
                          /\ SubSeq(query, 1, Len(name) + 1) = name \o "="
                       THEN Return(SubSeq(query, Len(name) + 2, Len(query)))
                       ELSE None
    IN  IF Value("reference") # None THEN Value("reference")
        ELSE IF Value("REF") # None THEN Value("REF")
        ELSE Value("Reference")

\* lines 67-74: re.search(r"/opp/([^/]+)/view", url)
parse_sam_id(url) ==
    LET Matches == {<<i, k>> \in Find(url, "/opp/") \X (1..Len(url)) :
                       /\ i + 9 + k <= Len(url)
                       /\ \A j \in (i + 5)..(i + 4 + k) : SubSeq(url, j, j) # "/"
                       /\ SubSeq(url, i + 5 + k, i + 9 + k) = "/view"}
    IN  IF Matches = {} THEN None
        ELSE LET m == CHOOSE m \in Matches : \A n \in Matches : m[1] <= n[1]
             IN  Return(SubSeq(url, m[1] + 5, m[1] + 4 + m[2]))

\* lines 104-118: the SAM ID of the link, then the opportunity is fetched
process_sam_link(url) ==
    IF parse_sam_id(url) = None THEN Raise("ValueError")
    ELSE [kind |-> "process", handler |-> "_process_sam_link", url |-> url,
          reference |-> parse_sam_id(url).value]

\* lines 233-249: the reference of the link, then the tender is searched
process_eu_link(url) ==
    IF parse_eu_reference(url) = None THEN Raise("ValueError")
    ELSE [kind |-> "process", handler |-> "_process_eu_link", url |-> url,
          reference |-> parse_eu_reference(url).value]

\* lines 76-98, the definition that the later one replaces
process_single_url_76(url) ==
    LET u == StripUrl(url)
    IN  IF is_sam_url(u) THEN process_sam_link(u)
        ELSE IF is_eu_guid_url(u)
             THEN process_eu_link("https://ec.europa.eu/info/funding-tenders/opportunities/portal/"
                                  \o "screen/opportunities/call-details?reference="
                                  \o extract_eu_guid_reference(u))
        ELSE IF is_eu_url(u) THEN process_eu_link(u)
        ELSE Raise("ValueError")

\* lines 386-398, the definition in effect
process_single_url(url) ==
    LET u == StripUrl(url)
    IN  IF is_sam_url(u) THEN process_sam_link(u)
        ELSE IF is_eu_url(u) THEN process_eu_link(u)
        ELSE Raise("ValueError")

\* the URLs: a host, a path, a query, and white space around them
Urls ==
    {pad \o host \o path \o query \o pad :
        pad \in {"", " "},
        host \in {"https://sam.gov", "https://ec.europa.eu"},
        path \in {"/", "/opp/", "/opp/ABC123/view", "/call-details",
                  "/tender-details/92aecb3b-f0e2-CN", "/tender-details/92aecb3b-f0e2-CN/"},
        query \in {"", "?x=1", "?reference=92aecb3b-f0e2-CN"}}

UrlInit ==
    /\ args \in {<<url>> : url \in Urls}
    /\ ret = None
    /\ call = NoCall
    /\ pipe = NoPipe
    /\ sam = NoSam
    /\ disk = NoDisk

\* the call up to the point where the link's opportunity is looked up
Dispatch ==
    /\ ret = None
    /\ Len(args) = 1
    /\ ret' = process_single_url(args[1])
    /\ UNCHANGED <<args, call, pipe, sam, disk>>

\* the rest of _process_sam_link or _process_eu_link: a row, or the
\* opportunity is not found (lines 116-118, 247-261)
ProcessLink ==
    /\ ret.kind = "process"
    /\ \E r \in {Return([source    |-> IF ret.handler = "_process_sam_link"
                                       THEN "SAM.gov" ELSE "EU Tenders",
                         reference |-> ret.reference]),
                 Raise("RuntimeError")} :
          ret' = r
    /\ UNCHANGED <<args, call, pipe, sam, disk>>

SpecUrl == UrlInit /\ [][Dispatch \/ ProcessLink]_vars
(***************************************************************************)
(* Properties of compute_cosine_similarity (under SpecCosine).             *)
(***************************************************************************)
IsZeroVector(v) == \A i \in 1..Len(v) : v[i] = 0

RECURSIVE IntDot(_, _, _)
IntDot(a, b, i) == IF i > Len(a) THEN 0 ELSE a[i] * b[i] + IntDot(a, b, i + 1)

NonZeroCoords(v) == Cardinality({i \in 1..Len(v) : v[i] # 0})

\* 2^k as a float
FPow2(k) == [s |-> 0, m |-> BShl(<<1>>, Prec - 1), e |-> k - (Prec - 1)]

\* |x - 1| <= 2^-51
NearOne(x) ==
    /\ FGe(x, FAdd(FromInt(1), [FPow2(-51) EXCEPT !.s = 1]))
    /\ FGe(FAdd(FromInt(1), FPow2(-51)), x)

\* the parts of C10 that do not concern a vector compared with itself
CosineConventions ==
    /\ Len(args[1]) # Len(args[2]) => ret = Raise("ValueError")
    /\ (Len(args[1]) = Len(args[2]) /\ (IsZeroVector(args[1]) \/ IsZeroVector(args[2])))
          => ret = Return(FZero)
    /\ (Len(args[1]) = Len(args[2]) /\ IntDot(args[1], args[2], 1) = 0)
          => ret = Return(FZero)

\* C10 (as amended): compute_cosine_similarity raises whenever the lengths
\* differ, even if a vector is all zeros; returns exactly 0 when the lengths
\* are equal and either vector has zero norm; returns 0 for orthogonal
\* vectors; and for a non-zero vector compared with itself returns a float
\* within 2^-51 of 1, which is exactly 1 when the vector has one non-zero
\* coordinate.
C10_CosineReference ==
    ret # None =>
        /\ CosineConventions
        /\ (args[1] = args[2] /\ ~IsZeroVector(args[1]))
              => (ret.kind = "return" /\ NearOne(ret.value))
        /\ (args[1] = args[2] /\ NonZeroCoords(args[1]) = 1)
              => ret = Return(FromInt(1))

\* the self-similarity of <<1, 1>> is computed, and it is not 1
C10_Witness ==
    /\ args = <<<<1, 1>>, <<1, 1>>>>
    /\ ret # None
    /\ ret.kind = "return"
    /\ NearOne(ret.value)
    /\ ret # Return(FromInt(1))

\* C10 as stated: ... and 1 for a non-zero vector compared with itself
C10_SelfSimilarityIsOne ==
    ret # None =>
        /\ CosineConventions
        /\ (args[1] = args[2] /\ ~IsZeroVector(args[1])) => ret = Return(FromInt(1))

(***************************************************************************)
(* Properties of passes_local_pre_filter (under SpecFilter).               *)
(***************************************************************************)
\* C8: passes_local_pre_filter returns false and does not raise whenever
\* article_text or solicitation_text is empty, whatever the other text is
\* (empty too, or only stop words), at any positive threshold.
C8_EmptyTextDoesNotMatch ==
    (ret # None /\ (args[1] = <<>> \/ args[2] = <<>>) /\ FCmp(args[3], FZero) = 1)
        => ret = Return(FALSE)

\* the verdict of one call of article_is_relevant for the texts of args at the
\* local threshold t, the provider answering every embedding call with <<1, 0>>
\* (so that the verdict is true once the pre-filter has passed)
C9_Verdict(t) ==
    RunRelevance(article_is_relevant(args[1], SubSeq(TagList, 1, 1), args[2],
                                     RELEVANCE_THRESHOLD, t),
                 <<Return(<<1, 0>>), Return(<<1, 0>>)>>).result

C9_NeverTurnsTrue(verdict) ==
    verdict = Return(FALSE)
        => \A t \in FilterThresholds :
               FCmp(t, args[3]) = 1 => C9_Verdict(t) # Return(TRUE)

\* C9: passes_local_pre_filter is monotonically non-increasing in its
\* threshold: for a fixed pair of texts and thresholds t1 <= t2, if it passes
\* at t2 it passes at t1 and if it fails at t1 it fails at t2; and
\* article_is_relevant never turns from false to true when only
\* local_threshold is raised.  (The thresholds compared are t1 < t2: for
\* t1 = t2 both calls are the same call.)
C9_MonotoneInThreshold ==
    ret # None =>
        /\ ret = Return(FALSE)
              => \A t \in FilterThresholds :
                    FCmp(t, args[3]) = 1
                        => passes_local_pre_filter(args[1], args[2], t) = Return(FALSE)
        /\ ret = Return(TRUE)
              => \A t \in FilterThresholds :
                    FCmp(args[3], t) = 1
                        => passes_local_pre_filter(args[1], args[2], t) = Return(TRUE)
        /\ C9_NeverTurnsTrue(C9_Verdict(args[3]))

\* a pair of texts that fails at threshold 1 and passes at the default
\* threshold, and whose relevance verdict is true at the default threshold
\* and false at threshold 1
C9_Witness ==
    /\ ret = Return(FALSE)
    /\ args[3] = FromInt(1)
    /\ passes_local_pre_filter(args[1], args[2], DEFAULT_LOCAL_THRESHOLD) = Return(TRUE)
    /\ C9_Verdict(DEFAULT_LOCAL_THRESHOLD) = Return(TRUE)
    /\ C9_Verdict(args[3]) = Return(FALSE)

(***************************************************************************)
(* Properties of one call of article_is_relevant (under Spec).             *)
(***************************************************************************)
NumTags == Len(call.solicitation_tags)

\* the answers to the tag embedding calls issued so far
TagAnswers == SubSeq(call.responses, 2, Len(call.responses))

\* every tag has been embedded and scored (the loop of lines 227-236 ran to
\* its end)
LoopCompleted == NumTags >= 1 /\ call.i = NumTags + 1

\* C1: an embedding call is issued only after the pre-filter has completed
\* and passed; if passes_local_pre_filter returns false, article_is_relevant
\* returns false and issues zero embedding calls, for every tag list and
\* every similarity threshold.
C1_PreFilterGatesEmbedding ==
    /\ call.pre_filter = Return(FALSE)
          => (call.pc = "done" /\ call.result = Return(FALSE) /\ call.embed_calls = <<>>)
    /\ call.embed_calls # <<>> => call.pre_filter = Return(TRUE)

\* the pre-filter has returned false for a call with MaxTags tags
C1_Witness ==
    /\ call.pc = "done"
    /\ call.pre_filter = Return(FALSE)
    /\ NumTags = MaxTags
    /\ call.result = Return(FALSE)

\* C3: when the embedding call of one tag fails and another tag's embedding
\* succeeds, the computation is not aborted: the call ends with a verdict
\* after every tag has had its embedding call, the failed tag contributing
\* nothing.
C3_FailedTagIsSkipped ==
    (/\ call.pc = "done"
     /\ \E k \in 1..Len(TagAnswers) : TagAnswers[k].kind = "raise"
     /\ \E k \in 1..Len(TagAnswers) : TagAnswers[k].kind = "return")
        => (call.result.kind = "return" /\ Len(TagAnswers) = NumTags)

\* C4: when the pre-filter passes, the tag list is non-empty and the
\* embedding call of every tag fails, the call returns false; it neither
\* raises nor divides by a zero total weight.
C4_AllTagsFailedIsIrrelevant ==
    (/\ call.pc = "done"
     /\ call.pre_filter = Return(TRUE)
     /\ NumTags >= 1
     /\ Len(TagAnswers) >= 1
     /\ \A k \in 1..Len(TagAnswers) : TagAnswers[k].kind = "raise")
        => call.result = Return(FALSE)

\* C5: when the pre-filter passes and solicitation_tags is empty,
\* article_is_relevant returns false and issues zero embedding calls (not
\* even the article's), for every similarity threshold, zero and negative
\* ones included.
C5_NoTagsNoEmbedding ==
    (call.pre_filter = Return(TRUE) /\ NumTags = 0 /\ call.pc # "check_tags")
        => (call.pc = "done" /\ call.result = Return(FALSE) /\ call.embed_calls = <<>>)

\* the call has ended for an empty tag list and a negative threshold
C5_Witness ==
    /\ call.pc = "done"
    /\ call.pre_filter = Return(TRUE)
    /\ NumTags = 0
    /\ call.threshold.s = 1
    /\ call.result = Return(FALSE)

\* C6: when both gates are reached with a non-empty tag list and every tag
\* has been embedded and scored, article_is_relevant returns true exactly
\* when the weighted average is greater than or equal to the threshold; a
\* weighted average equal to the threshold returns true.
C6_InclusiveThreshold ==
    (call.pc = "done" /\ LoopCompleted)
        => /\ call.result.kind = "return"
           /\ call.result.value <=>
                  FCmp(FDiv(call.sum_weighted_sims, call.total_weight),
                       call.threshold) \in {0, 1}

\* a weighted average equal to the threshold, over MaxTags tags
C6_Witness ==
    /\ call.pc = "done"
    /\ LoopCompleted
    /\ NumTags = MaxTags
    /\ FCmp(FDiv(call.sum_weighted_sims, call.total_weight), call.threshold) = 0
    /\ call.result = Return(TRUE)

\* the sum of the first j weights
RECURSIVE SumWeights(_, _)
SumWeights(w, j) == IF j = 0 THEN 0 ELSE w[j] + SumWeights(w, j - 1)

\* C7: for a tag list of length N >= 1 the tag at 0-based position i is
\* weighted N - i: the weights are strictly descending positive integers from
\* N down to 1, a repeated tag keeps the weight of each of its positions, and
\* the weights applied so far are those of the positions scored so far.
C7_PositionalWeights ==
    call.pc \in {"embed_article", "embed_tag", "decide"}
        => /\ Len(call.weights) = NumTags
           /\ \A k \in 1..NumTags : call.weights[k] = NumTags - (k - 1)
           /\ \A k \in 1..(NumTags - 1) : call.weights[k] > call.weights[k + 1]
           /\ call.weights[1] = NumTags
           /\ call.weights[NumTags] = 1
           /\ call.pc # "embed_article"
                 => call.total_weight = FromInt(SumWeights(call.weights, call.i - 1))

\* three tags, the first and the third the same, weighted 3, 2, 1
C7_Witness ==
    /\ call.pc = "decide"
    /\ NumTags = 3
    /\ call.solicitation_tags[1] = call.solicitation_tags[3]
    /\ call.weights = <<3, 2, 1>>
    /\ call.total_weight = FromInt(6)

(***************************************************************************)
(* Properties of the pipelines (under SpecPipeline).                       *)
(***************************************************************************)
\* C2: when the relevance check of one article of a solicitation fails with
\* an error, the remaining articles of that solicitation are still evaluated:
\* the pipeline does not end with the solicitation before every article of
\* the store has had its relevance check.
C2_RemainingArticlesAreChecked ==
    (pipe.pc = "done" /\ call.pc = "done" /\ call.result.kind = "raise")
        => pipe.art = Len(pipe.articles)


\* C11: when a tag's embedding has a different length from the article's
\* embedding, the call ends with the error of compute_cosine_similarity: it
\* returns no boolean verdict, and the mismatching tag is not skipped (no
\* later tag is embedded).
C11_MismatchIsAnError ==
    \A k \in 2..Len(call.responses) :
        (/\ call.responses[1].kind = "return"
         /\ call.responses[k].kind = "return"
         /\ Len(call.responses[k].value) # Len(call.responses[1].value))
            => /\ call.pc = "done"
               /\ call.result = Raise("ValueError")
               /\ k = Len(call.responses)

\* the second of three tags came back with another dimension than the
\* article's embedding
C11_Witness ==
    /\ call.pc = "done"
    /\ NumTags = 3
    /\ Len(call.responses) = 3
    /\ call.responses[2].kind = "return"
    /\ call.responses[3].kind = "return"
    /\ Len(call.responses[2].value) = Len(call.article_embedding)
    /\ Len(call.responses[3].value) # Len(call.article_embedding)
    /\ call.result.kind = "raise"

\* C12: a call that passes the pre-filter with N >= 1 tags and meets no
\* failure issues exactly 1 + N embedding calls: the first for the article
\* text, then one per tag in tag-list order, a repeated tag being embedded
\* once per position; while the call runs, the calls issued so far are a
\* prefix of that sequence.
C12_OnePlusNEmbeddingCalls ==
    /\ Len(call.embed_calls) <= 1 + NumTags
    /\ call.embed_calls # <<>> => call.embed_calls[1] = call.article_text
    /\ \A k \in 2..Len(call.embed_calls) :
          call.embed_calls[k] = call.solicitation_tags[k - 1]
    /\ (call.pc = "done" /\ LoopCompleted)
          => call.embed_calls = <<call.article_text>> \o call.solicitation_tags

\* a call with three tags, the first and the third the same, has returned
C12_Witness ==
    /\ call.pc = "done"
    /\ LoopCompleted
    /\ NumTags = 3
    /\ call.solicitation_tags[1] = call.solicitation_tags[3]
    /\ call.result.kind = "return"
    /\ Len(call.embed_calls) = 4

(***************************************************************************)
(* Properties of the scorer with mocked similarities (under SpecScorer).   *)
(***************************************************************************)
\* the similarities 0.9, 0.85, 0.8 were returned for the weights 3, 2, 1
C17_Example ==
    /\ call.pc = "done"
    /\ call.weights = <<3, 2, 1>>
    /\ args = <<FLit(9, 10), FLit(85, 100), FLit(8, 10)>>

\* C17 (amended): for per-tag similarities [0.9, 0.85, 0.8] with weights
\* [3, 2, 1] the weighted average is (0.9*3 + 0.85*2 + 0.8*1) / 6 = 5.2 / 6,
\* which is 0.8667 to four decimals; it is above 0.75 and above
\* RELEVANCE_THRESHOLD, so the call returns true.
C17_WeightedAverage ==
    C17_Example
        => /\ Format4(weighted_avg(call)) = 8667
           /\ call.total_weight = FromInt(6)
           /\ call.result = Return(TRUE)

C17_Witness ==
    /\ C17_Example
    /\ call.threshold = FLit(3, 4)
    /\ call.result = Return(TRUE)

\* C17 as stated: the weighted average of the example is 0.8583 to four
\* decimals
C17_AverageIs8583 ==
    C17_Example => Format4(weighted_avg(call)) = 8583

(***************************************************************************)
(* Properties of the pipelines (under SpecPipeline).                       *)
(***************************************************************************)
\* the tag list generate_solicitation_tags returned: the last answer, the
\* earlier ones being the failures that _safe_call retried
TagsGenerated ==
    /\ pipe.tag_calls # <<>>
    /\ pipe.tag_calls[Len(pipe.tag_calls)].kind = "return"
    /\ \A k \in 1..(Len(pipe.tag_calls) - 1) : pipe.tag_calls[k].kind = "raise"
    /\ pipe.tags = pipe.tag_calls[Len(pipe.tag_calls)].value

\* C16: in every pipeline the tag list of a solicitation is produced before
\* the first relevance check, and the same unchanged list is passed to every
\* article_is_relevant call of the solicitation: from the first check on,
\* the last invocation of tag generation is the one that returned the list
\* (it is not invoked again) and every check, ended or running, received it.
C16_TagsFixedAcrossArticles ==
    (pipe.pc # "none" /\ (pipe.art >= 1 \/ call.pc # "none"))
        => /\ TagsGenerated
           /\ Len(pipe.tag_calls) <= MAX_GPT_RETRIES(pipe.kind)
           /\ \A k \in 1..Len(pipe.checks) :
                 pipe.checks[k].solicitation_tags = pipe.tags
           /\ call.pc # "none" => call.solicitation_tags = pipe.tags

\* the second article is being checked, the tags having been generated at
\* the third attempt
C16_Witness ==
    /\ pipe.pc = "articles"
    /\ pipe.art = 2
    /\ Len(pipe.checks) = 1
    /\ Len(pipe.tag_calls) = 3
    /\ call.pc = "embed_tag"
    /\ call.solicitation_tags = pipe.tags

\* the call of article_is_relevant of activation c, before its first step
Fresh(c) ==
    article_is_relevant(c.article_text, c.solicitation_tags, c.solicitation_text,
                        c.threshold, c.local_threshold)

SameInputs(c, d) == Fresh(c) = Fresh(d) /\ c.responses = d.responses

\* the activation c ended with the result of the same call run on its own
AsOnItsOwn(c) == c.result = RunRelevance(Fresh(c), c.responses).result

MultiStep == call.fn = "generate_tags_multi_step"

\* C13: a successful generate_tags_multi_step call issues exactly two
\* chat-completion calls in order: the domain-identification call is
\* answered before the tag-extraction call is issued, and the second prompt
\* contains the text the first call returned (stripped of surrounding
\* whitespace) together with the article text.
C13_TwoCallsInOrder ==
    MultiStep
        => /\ Len(call.chat_calls) <= 2
           /\ Len(call.responses) = Len(call.chat_calls)
           /\ \A k \in 1..Len(call.chat_calls) : call.chat_calls[k].step = k
           /\ Len(call.chat_calls) = 2
                 => /\ call.responses[1].kind = "return"
                    /\ call.chat_calls[2].domain_line = Strip(call.responses[1].value)
                    /\ call.chat_calls[2].article_text = call.article_text
           /\ (call.pc = "done" /\ call.result.kind = "return")
                 => Len(call.chat_calls) = 2

\* the call has returned tags after a domain line that came back with
\* surrounding whitespace
C13_Witness ==
    /\ MultiStep
    /\ call.pc = "done"
    /\ call.result.kind = "return"
    /\ call.result.value # <<>>
    /\ call.responses[1].value = <<" ", "a", " ">>
    /\ call.chat_calls[2].domain_line = <<"a">>

\* C14: generate_tags_multi_step does not swallow model failures: a failed
\* call ends the activation with that error as its result, so after a
\* failure of step 1 the step-2 call is never issued, after a failure of
\* step 2 no tag list is returned, and no step is issued twice.
C14_FailuresPropagate ==
    MultiStep
        => /\ \A k \in 1..Len(call.responses) :
                 call.responses[k].kind = "raise"
                     => /\ call.pc = "done"
                        /\ call.result = call.responses[k]
                        /\ Len(call.chat_calls) = k
           /\ \A j, k \in 1..Len(call.chat_calls) :
                 call.chat_calls[j].step = call.chat_calls[k].step => j = k

\* step 2 has failed after a successful step 1
C14_Witness ==
    /\ MultiStep
    /\ call.pc = "done"
    /\ Len(call.responses) = 2
    /\ call.responses[1].kind = "return"
    /\ call.responses[2].kind = "raise"
    /\ call.result = call.responses[2]

\* the positions of s where a tag begins: a character other than a blank or
\* a comma, with only blanks between it and the comma before it (or the
\* beginning of s)
TagStarts(s) ==
    {k \in 1..Len(s) :
        /\ s[k] \notin {" ", ","}
        /\ \A j \in 1..(k - 1) : (\A i \in j..(k - 1) : s[i] # ",") => s[j] = " "}

\* the position where the tag that begins at k ends: the last character other
\* than a blank before the next comma (or the end of s)
TagEnd(s, k) ==
    CHOOSE m \in k..Len(s) :
        /\ s[m] \notin {" ", ","}
        /\ \A i \in k..m : s[i] # ","
        /\ \A j \in (m + 1)..Len(s) : (\A i \in m..j : s[i] # ",") => s[j] = " "

\* the n-th tag of s
TagAt(s, n) ==
    LET k == CHOOSE j \in TagStarts(s) : Cardinality({i \in TagStarts(s) : i <= j}) = n
    IN  SubSeq(s, k, TagEnd(s, k))

ReturnsTags ==
    /\ call.fn \in {"generate_tags_multi_step", "generate_solicitation_tags"}
    /\ call.pc = "done"
    /\ call.result.kind = "return"

\* the text of the model's last answer
LastContent == call.responses[Len(call.responses)].value

\* C15: the tag list returned by generate_tags_multi_step and by
\* generate_solicitation_tags is the model's output split on commas with
\* each piece trimmed: no entry is empty or blank, none begins or ends with
\* a blank or holds a comma, and the entries are, in the order of the
\* output, its maximal comma-free stretches cut down to their first and last
\* non-blank characters.
C15_TagsAreSplitAndTrimmed ==
    ReturnsTags
        => /\ \A n \in 1..Len(call.result.value) :
                 /\ call.result.value[n] # <<>>
                 /\ Head(call.result.value[n]) # " "
                 /\ call.result.value[n][Len(call.result.value[n])] # " "
                 /\ \A i \in 1..Len(call.result.value[n]) : call.result.value[n][i] # ","
           /\ Len(call.result.value) = Cardinality(TagStarts(LastContent))
           /\ \A n \in 1..Len(call.result.value) :
                 call.result.value[n] = TagAt(LastContent, n)

\* " b,a" came back: an empty-free list of two trimmed tags in the order b, a
C15_Witness ==
    /\ ReturnsTags
    /\ LastContent = <<" ", "b", ",", "a">>
    /\ call.result.value = << <<"b">>, <<"a">> >>

\* what one activation of a retrying function has done so far
C19_Cap ==
    call.fn \in RetryFunctions
        => /\ Len(call.chat_calls) <= MAX_INTERNAL_RETRIES
           /\ Len(call.chat_calls) = call.step
           /\ call.pc = "done" => call.result.kind \in {"return", "raise"}
           /\ (call.pc = "done" /\ call.result.kind = "return")
                 => /\ call.responses[Len(call.responses)].kind = "return"
                    /\ \A k \in 1..(Len(call.responses) - 1) :
                          call.responses[k].kind = "raise"

\* C19: each of generate_insights, generate_swot_analysis and
\* generate_solicitation_tags has a hard cap on internal retries: one
\* invocation issues at most 3 chat-completion calls and always terminates,
\* returning the first successful response or raising an error, even when
\* every call fails with a context-length error.
C19_RetriesAreCapped == [](C19_Cap) /\ <>(call.pc = "done")

\* three calls have failed with a context-length error and the invocation
\* has ended with an error
C19_Witness ==
    /\ call.fn \in RetryFunctions
    /\ call.pc = "done"
    /\ Len(call.chat_calls) = 3
    /\ \A k \in 1..3 : call.responses[k].kind = "raise" /\ ContextTooLong(call.responses[k].error)
    /\ call.result.kind = "raise"

(***************************************************************************)
(* Properties of run_sam_pipeline (under SpecSam).                         *)
(***************************************************************************)
\* C20: run_sam_pipeline can be stopped between two notices and started
\* again without repeating work: a notice whose id was in the processed
\* cache on disk when a run started has no processing begun for it in that
\* run, so no GPT call, no relevance check (embedding) and no news-impact
\* call is issued for it: such calls are issued only while a notice is being
\* processed, and that notice is one whose processing began in this run.
C20_RestartRepeatsNoWork ==
    /\ \A e \in sam.called : e.notice_id \notin sam.loaded[e.run]
    /\ (pipe.pc # "none" \/ call.pc # "none")
          => /\ sam.pc = "notice"
             /\ [run |-> sam.runs, notice_id |-> sam.notice_id] \in sam.called
             /\ sam.notice_id \notin sam.loaded[sam.runs]

\* a second run, started after the first was stopped with one notice of two
\* processed, has skipped that notice and is checking an article for the
\* other one
C20_Witness ==
    /\ sam.pc = "notice"
    /\ sam.runs = 2
    /\ sam.n_idx = 2
    /\ Cardinality(sam.loaded[2]) = 1
    /\ Len(sam.rows) = 1
    /\ sam.called = {[run |-> 1, notice_id |-> NoticeId(sam.notices[1], 1)],
                     [run |-> 2, notice_id |-> sam.notice_id]}
    /\ call.pc = "embed_tag"

(***************************************************************************)
(* run_sam_pipeline: errors of a notice                                    *)
(***************************************************************************)
\* the processing of the current notice has raised
NoticeRaised ==
    /\ sam.pc = "notice"
    /\ pipe.pc = "done"
    /\ "error" \in DOMAIN pipe.outcome.value

\* every notice of the list has an entry in the processed cache file
AllNoticesCached ==
    /\ disk.processed_cache # None
    /\ \A i \in 1..Len(disk.notice_cache.content) :
          NoticeId(disk.notice_cache.content[i], i) \in DOMAIN disk.processed_cache.content

\* C21: an error raised while a notice is processed does not stop the loop
\* of run_sam_pipeline: the step that handles it records the notice, with
\* the error, in the processed cache (in memory and on disk) and leaves the
\* process in the loop at the same position; and from there the run goes on
\* until every notice of the list is in the processed cache and the output
\* file is written.
C21_ErrorNeverStopsTheLoop ==
    /\ [][NoticeRaised =>
            /\ sam'.pc = "loop"
            /\ sam'.n_idx = sam.n_idx
            /\ sam'.notices = sam.notices
            /\ sam'.processed_cache[sam.notice_id] = pipe.outcome.value
            /\ disk'.processed_cache = [content |-> sam'.processed_cache]]_vars
    /\ NoticeRaised ~> (sam.pc = "idle" /\ disk.out_json # None /\ AllNoticesCached)

\* the first of two notices raised, the second was processed after it, and
\* the run has written its output
C21_Witness ==
    /\ sam.pc = "idle"
    /\ disk.out_json # None
    /\ Len(disk.notice_cache.content) = 2
    /\ AllNoticesCached
    /\ "error" \in DOMAIN disk.processed_cache.content[NoticeId(disk.notice_cache.content[1], 1)]
    /\ "error" \notin DOMAIN disk.processed_cache.content[NoticeId(disk.notice_cache.content[2], 2)]
    /\ Len(disk.out_json.content) = 1

(***************************************************************************)
(* _safe_call                                                              *)
(***************************************************************************)
\* C22: _safe_call never raises: it invokes the wrapped function at most
\* MAX_GPT_RETRIES times, every invocation but the last one made has failed
\* (so the first success ends it), a success is what it returns, and after
\* MAX_GPT_RETRIES failures it returns a string that begins with
\* "[ERROR after".
C22_SafeCallNeverRaises ==
    /\ Len(call.answers) <= MAX_GPT_RETRIES(call.kind)
    /\ \A j \in 1..(Len(call.answers) - 1) : call.answers[j].kind = "raise"
    /\ call.pc = "try" =>
          /\ Len(call.answers) < MAX_GPT_RETRIES(call.kind)
          /\ \A j \in 1..Len(call.answers) : call.answers[j].kind = "raise"
    /\ call.pc = "done" =>
          /\ call.answers # <<>>
          /\ call.result.kind = "return"
          /\ LET last == call.answers[Len(call.answers)]
             IN  IF last.kind = "return" THEN call.result = last
                 ELSE /\ Len(call.answers) = MAX_GPT_RETRIES(call.kind)
                      /\ SubSeq(call.result.value, 1, 12) = "[ERROR after"

\* the guard of _process_eu_link has given up after three failures
C22_Witness ==
    /\ call.pc = "done"
    /\ call.kind = "_process_eu_link"
    /\ Len(call.answers) = 3
    /\ call.result = Return("[ERROR after 3 tries: TypeError]")

(***************************************************************************)
(* generate_news_impact_paragraph in the pipelines                         *)
(***************************************************************************)
\* the articles whose check has ended with TRUE (checks[a] is the check of
\* article a: the loop makes one per article, in store order)
RelevantArticles == {a \in 1..Len(pipe.checks) : pipe.checks[a].result = Return(TRUE)}

\* the pipeline has a row for the solicitation, or is still in its loop
HasImpacts ==
    \/ pipe.pc = "articles"
    \/ pipe.pc = "done" /\ pipe.outcome.kind = "return" /\ "error" \notin DOMAIN pipe.outcome.value

\* the impact paragraph is requested only for an article whose check has
\* returned TRUE, and news_impacts has one entry per such article, in store
\* order
ImpactsFollowVerdicts ==
    /\ \A k \in 1..Len(pipe.impact_calls) : pipe.impact_calls[k].article \in RelevantArticles
    /\ \A k \in 1..Len(pipe.news_impacts) : pipe.news_impacts[k].article \in RelevantArticles
    /\ \A k \in 1..(Len(pipe.news_impacts) - 1) :
          pipe.news_impacts[k].article < pipe.news_impacts[k + 1].article
    /\ HasImpacts =>
          \A a \in RelevantArticles : \E k \in 1..Len(pipe.news_impacts) :
             pipe.news_impacts[k].article = a

\* C23 (as the code has it): generate_news_impact_paragraph is invoked for
\* an article only after article_is_relevant returned TRUE for it, at least
\* once and at most MAX_GPT_RETRIES times (once in run_sam_pipeline and
\* _process_sam_link, and in run_eu_pipeline, which has no guard; up to
\* three times in _process_eu_link), each invocation but the last having
\* failed; news_impacts has exactly one entry per relevant article, in
\* store order.
C23_ImpactCallsPerRelevantArticle ==
    pipe.pc # "none" =>
        /\ ImpactsFollowVerdicts
        /\ \A a \in RelevantArticles :
              LET calls == ImpactCallsFor(pipe, a)
              IN  /\ Len(calls) >= 1
                  /\ Len(calls) <= MAX_GPT_RETRIES(pipe.kind)
                  /\ \A k \in 1..(Len(calls) - 1) : calls[k].answer = "fail"

\* _process_eu_link has a row with two relevant articles, the paragraph of
\* the first obtained at the third invocation
C23_Witness ==
    /\ pipe.pc = "done"
    /\ pipe.kind = "_process_eu_link"
    /\ RelevantArticles = {1, 2}
    /\ Len(ImpactCallsFor(pipe, 1)) = 3
    /\ Len(pipe.outcome.value.news_impacts) = 2
    /\ pipe.outcome.value.news_impacts[1].impact = "paragraph"

\* C23 as stated: exactly one invocation per relevant article
C23_ExactlyOnce ==
    pipe.pc # "none" =>
        /\ ImpactsFollowVerdicts
        /\ \A a \in RelevantArticles : Len(ImpactCallsFor(pipe, a)) = 1

(***************************************************************************)
(* fetch_all_pages                                                         *)
(***************************************************************************)
\* the first page was fetched and the call has returned
FetchedAll == call.pc = "done" /\ call.answers[1] # EmptyDict

\* totalResults of the first page (0 when the response has none)
FirstTotal ==
    IF "totalResults" \in DOMAIN call.answers[1] THEN call.answers[1].totalResults ELSE 0

\* ceil(n / EU_PAGE_SIZE)
CeilPages(n) == (n + EU_PAGE_SIZE - 1) \div EU_PAGE_SIZE

SaysTooLarge(r) ==
    r.kind = "raise" /\ r.error.text \in {"maximum context length", "request too large"}

\* C25: in the three functions a completion call is made again only after
\* an error whose message says that the context is too long or the request
\* too large; after any other error the function makes no further
\* completion call and ends with that error.
C25_OnlyContextLengthRetries ==
    (call.pc # "none" /\ call.fn \in RetryFunctions) =>
        /\ Len(call.chat_calls) = Len(call.responses)
        /\ \A k \in 1..Len(call.responses) :
              /\ k < Len(call.responses) => SaysTooLarge(call.responses[k])
              /\ (call.responses[k].kind = "raise" /\ ~SaysTooLarge(call.responses[k]))
                    => /\ k = Len(call.responses)
                       /\ call.pc = "done"
                       /\ call.result = call.responses[k]

\* a rate limit error after one truncation: it is the result, and no third
\* call was made
C25_Witness ==
    /\ call.pc = "done"
    /\ call.fn = "generate_insights"
    /\ Len(call.chat_calls) = 2
    /\ SaysTooLarge(call.responses[1])
    /\ call.responses[2] = Raise([type |-> "RateLimitError", text |-> "rate limit reached"])
    /\ call.result = call.responses[2]

(***************************************************************************)
(* process_single_url                                                      *)
(***************************************************************************)
\* C26: process_single_url processes a GUID-style EU URL (a path ending in
\* /tender-details/<GUID>-CN, no reference= parameter) as an EU tender whose
\* reference is the last path segment; it raises ValueError only for a URL
\* that is neither a SAM, a GUID-style EU nor a reference-style EU link (or
\* whose SAM ID or reference cannot be parsed); and a SAM URL goes to the
\* SAM processing.
C26_GuidUrlIsProcessed ==
    (Len(args) = 1 /\ ret # None) =>
        LET u == StripUrl(args[1])
        IN  /\ (is_eu_guid_url(u) /\ ~is_eu_url(u) /\ ~is_sam_url(u)) =>
                  /\ ret # Raise("ValueError")
                  /\ ret.kind = "process" =>
                        /\ ret.handler = "_process_eu_link"
                        /\ ret.reference = extract_eu_guid_reference(u)
            /\ ret = Raise("ValueError") =>
                  \/ ~is_sam_url(u) /\ ~is_eu_guid_url(u) /\ ~is_eu_url(u)
                  \/ is_sam_url(u) /\ parse_sam_id(u) = None
                  \/ ~is_sam_url(u) /\ is_eu_url(u) /\ parse_eu_reference(u) = None
            /\ is_sam_url(u) =>
                  /\ ret.kind = "process" => ret.handler = "_process_sam_link"
                  /\ ret.kind = "return" => ret.value.source = "SAM.gov"

(***************************************************************************)
(* a solicitation whose tag generation failed                              *)
(***************************************************************************)
\* C27: in run_sam_pipeline, _process_sam_link and _process_eu_link, once
\* the guarded tag generation has given its error string, article_is_relevant
\* is never called for the solicitation (so no embedding is requested), no
\* impact paragraph is requested, news_impacts is empty, and the pipeline
\* ends with a row whose tags field holds the error text.
C27_NoChecksWithoutTags ==
    (pipe.pc # "none" /\ Guarded(pipe.kind) /\ TagsFailed(pipe)) =>
        /\ Len(pipe.tag_calls) = MAX_GPT_RETRIES(pipe.kind)
        /\ call = NoCall
        /\ pipe.art = 0
        /\ pipe.checks = <<>>
        /\ pipe.impact_calls = <<>>
        /\ pipe.news_impacts = <<>>
        /\ pipe.pc \in {"row", "done"}
        /\ pipe.pc = "done" =>
              /\ pipe.outcome.kind = "return"
              /\ "error" \notin DOMAIN pipe.outcome.value
              /\ pipe.outcome.value.news_impacts = <<>>
              /\ pipe.outcome.value.tags =
                    IF pipe.kind = "run_sam_pipeline"
                    THEN ErrorAfter(pipe.kind, "OpenAIError")
                    ELSE <<ErrorAfter(pipe.kind, "OpenAIError")>>

\* _process_eu_link has its row after three failed tag generations, with
\* articles in the store
C27_Witness ==
    /\ pipe.pc = "done"
    /\ pipe.kind = "_process_eu_link"
    /\ Len(pipe.articles) = 2
    /\ TagsFailed(pipe)
    /\ pipe.outcome.value.tags = <<"[ERROR after 3 tries: OpenAIError]">>

(***************************************************************************)
(* the rows run_sam_pipeline returns                                       *)
(***************************************************************************)
\* the keys normalize_sam_row reads (master_script.py lines 23-36)
SamRowKeys == {"source", "sam_id", "title", "status", "solicitation", "naics",
               "link", "tags", "insights", "swot", "news_impacts"}

\* C28: every element of the list run_sam_pipeline returns, and writes to
\* its output file, has every key of the SAM row schema, whatever processed
\* cache earlier runs have left.
C28_ReturnedRowsHaveTheSchema ==
    (sam.pc # "none" /\ ret # None) =>
        /\ ret.kind = "return"
        /\ disk.out_json = [content |-> ret.value]
        /\ \A i \in 1..Len(ret.value) : SamRowKeys \subseteq DOMAIN ret.value[i]

(***************************************************************************)
(* The weighted average as a convex combination (under SpecScorer).        *)
(***************************************************************************)
\* every tag was scored: args is the per-tag similarities
AllScored == call.pc \in {"decide", "done"} /\ Len(args) = Len(call.solicitation_tags)

SmallestSimilarity ==
    CHOOSE x \in {args[k] : k \in 1..Len(args)} : \A k \in 1..Len(args) : FGe(args[k], x)

LargestSimilarity ==
    CHOOSE x \in {args[k] : k \in 1..Len(args)} : \A k \in 1..Len(args) : FGe(x, args[k])

\* C29 (as the code has it): when all N >= 1 tags were scored the total
\* weight is N(N+1)/2 > 0, and the weighted average, computed in binary64,
\* lies in [0, 1] when every per-tag similarity does; it is the convex
\* combination of the similarities up to rounding: it can be below the
\* smallest or above the largest of them, by less than 2^-49.
C29_AverageWithinRounding ==
    AllScored =>
        LET N == Len(args)
        IN  /\ N >= 1
            /\ call.total_weight = FromInt((N * (N + 1)) \div 2)
            /\ FCmp(call.total_weight, FromInt(0)) = 1
            /\ FGe(weighted_avg(call), FromInt(0))
            /\ FGe(FromInt(1), weighted_avg(call))
            /\ FGe(FAdd(weighted_avg(call), FPow2(-49)), SmallestSimilarity)
            /\ FGe(FAdd(LargestSimilarity, FPow2(-49)), weighted_avg(call))

\* three tags of similarity 0.8: the average is below 0.8
C29_Witness ==
    /\ AllScored
    /\ args = <<FLit(8, 10), FLit(8, 10), FLit(8, 10)>>
    /\ FCmp(weighted_avg(call), FLit(8, 10)) = -1
    /\ Format4(weighted_avg(call)) = 8000

\* C29 as stated: the weighted average is never below the smallest and never
\* above the largest per-tag similarity
C29_ConvexCombination ==
    AllScored =>
        /\ FGe(weighted_avg(call), SmallestSimilarity)
        /\ FGe(LargestSimilarity, weighted_avg(call))
====
